---- MODULE Spec2Model ----
(***************************************************************************)
(* State-machine model of the sfml package: the memoised session provider  *)
(* (sfml/session.py), infrastructure setup / teardown (sfml/remote) and    *)
(* job submission / status (sfml/jobs), the configuration loader           *)
(* (sfml/config.py) and the CLI wrappers connect / disconnect.             *)
(***************************************************************************)
EXTENDS Integers, Sequences, FiniteSets, TLC

VARIABLES
    cache,    \* the lru_cache(maxsize=1) slot of get_session
    created,  \* number of Session handles created so far by the process
    given,    \* per argument: handle last returned since the last cache clear
    lastKey,  \* argument of the last successful get_session since the last clear
    env,      \* value of SNOWFLAKE_CONNECTION_NAME
    store,    \* connection names present in ~/.snowflake/config.toml
    fs,       \* local paths that exist
    njobs,    \* number of jobs the external service has accepted
    tree,     \* the entries below the local directory "project"
    cfgfiles, \* the configuration files: their parsed content, or Missing
    proc,     \* the CLI subprocess started by connect: "none" or "running"
    creds,    \* per connection name: its table in ~/.snowflake/config.toml
    lru,      \* the memoiser's dict when callers overlap: entries, oldest first
    lruFull,  \* the memoiser's "full" flag
    thr,      \* per thread: where it is inside get_session, argument, handle
    last      \* the most recent call: its inputs, external calls and outcome

vars == <<cache, created, given, lastKey, env, store, fs, njobs, tree, cfgfiles, proc, creds, lru, lruFull, thr, last>>

\* the memoiser seen by overlapping callers
threadVars == <<lru, lruFull, thr>>

\* the state only submit_directory, Config.load, connect, the credential
\* lookup and overlapping callers look at
hostVars == <<tree, cfgfiles, proc, creds, threadVars>>

----------------------------------------------------------------------------
\* Bounds of the model
MaxHandles == 3
MaxJobs == 2
MaxThreads == 2

\* Python's None, an unset environment variable
None == "<None>"
Unset == "<unset>"
\* no argument cached / no successful call yet
NoKey == "<no key>"

ConnNames == {"myconnection", "dev", "ghost"}
Args == ConnNames \cup {None}
EnvValues == {Unset, "dev", "ghost"}

\* the configuration files load can be pointed at: the two it searches for
\* and three a caller may name; a dict is a set of <<key, value>> pairs
UserConfig == "config/config.yaml"
DefaultConfig == "config/default.yaml"
CfgPaths == {UserConfig, DefaultConfig, "my.yaml", "bad.yaml", "nope.yaml"}
NoFile == [exists |-> FALSE, wellformed |-> TRUE, data |-> {}]
NoFiles == [p \in CfgPaths |-> NoFile]

\* a connection table with a password
PasswordEntry == {<<"account", "acme">>, <<"user", "me">>, <<"password", "pw">>}
PasswordCreds == [n \in ConnNames |-> PasswordEntry]

NoHandle == [id |-> 0, name |-> None]
EmptyCache == [full |-> FALSE, key |-> NoKey, handle |-> NoHandle]

----------------------------------------------------------------------------
\* sfml/session.py

\* Python truthiness of an optional string
Falsy(x) == x = None \/ x = ""

\* a dict is a set of <<key, value>> pairs
HasKey(d, k) == \E p \in d : p[1] = k

\* d.get(k, default)
DictGet(d, k, default) ==
    IF HasKey(d, k) THEN (CHOOSE p \in d : p[1] = k)[2] ELSE default

\* mutant of ResolveName: the environment variable wins over the argument
ResolveNameEnvFirst(arg, e) ==
    IF e # Unset THEN e
    ELSE IF ~Falsy(arg) THEN arg ELSE "myconnection"

\* conn_name = connection_name or os.getenv("SNOWFLAKE_CONNECTION_NAME", "myconnection")
ResolveName(arg, e) ==
    IF ~Falsy(arg) THEN arg
    ELSE IF e # Unset THEN e ELSE "myconnection"

\* "or" evaluates os.getenv only when the argument is falsy
ReadsEnv(arg) == Falsy(arg)

\* mutant of ConnectionFound: the lookup is skipped
ConnectionFoundAlways(name, st) == TRUE

\* _get_connection_config raises ValueError when the name is not in the store
\* (a missing store file, or one without connections, is the empty store)
ConnectionFound(name, st) == name \in st

\* mutants of CacheHit
CacheHitNever(c, arg) == FALSE
CacheHitAnyKey(c, arg) == c.full

\* lru_cache: a hit needs an entry stored under the very argument of the call
CacheHit(c, arg) == c.full /\ c.key = arg

\* mutant of SessionCall: a connector failure drops the cached handle
SessionCallFailureClears(c, n, arg, e, st, connOk) ==
    IF CacheHit(c, arg)
    THEN [outcome |-> "returned", exc |-> None, handle |-> c.handle,
          fresh |-> FALSE, cache |-> c, created |-> n,
          ran |-> FALSE, resolved |-> None, envRead |-> FALSE,
          attempted |-> FALSE]
    ELSE IF ~ConnectionFound(ResolveName(arg, e), st)
    THEN [outcome |-> "raised", exc |-> "ValueError", handle |-> NoHandle,
          fresh |-> FALSE, cache |-> c, created |-> n,
          ran |-> TRUE, resolved |-> ResolveName(arg, e),
          envRead |-> ReadsEnv(arg), attempted |-> FALSE]
    ELSE IF ~connOk
    THEN [outcome |-> "raised", exc |-> "ConnectError", handle |-> NoHandle,
          fresh |-> FALSE, cache |-> EmptyCache, created |-> n,
          ran |-> TRUE, resolved |-> ResolveName(arg, e),
          envRead |-> ReadsEnv(arg), attempted |-> TRUE]
    ELSE LET h == [id |-> n + 1, name |-> ResolveName(arg, e)]
         IN  [outcome |-> "returned", exc |-> None, handle |-> h,
              fresh |-> TRUE,
              cache |-> [full |-> TRUE, key |-> arg, handle |-> h],
              created |-> n + 1,
              ran |-> TRUE, resolved |-> ResolveName(arg, e),
              envRead |-> ReadsEnv(arg), attempted |-> TRUE]

\* One call of the memoised get_session: the outcome, the handle returned,
\* and the cache / handle counter after it.  connOk: the connector succeeds.
SessionCall(c, n, arg, e, st, connOk) ==
    IF CacheHit(c, arg)
    THEN [outcome |-> "returned", exc |-> None, handle |-> c.handle,
          fresh |-> FALSE, cache |-> c, created |-> n,
          ran |-> FALSE, resolved |-> None, envRead |-> FALSE,
          attempted |-> FALSE]
    ELSE IF ~ConnectionFound(ResolveName(arg, e), st)
    THEN [outcome |-> "raised", exc |-> "ValueError", handle |-> NoHandle,
          fresh |-> FALSE, cache |-> c, created |-> n,
          ran |-> TRUE, resolved |-> ResolveName(arg, e),
          envRead |-> ReadsEnv(arg), attempted |-> FALSE]
    ELSE IF ~connOk
    THEN [outcome |-> "raised", exc |-> "ConnectError", handle |-> NoHandle,
          fresh |-> FALSE, cache |-> c, created |-> n,
          ran |-> TRUE, resolved |-> ResolveName(arg, e),
          envRead |-> ReadsEnv(arg), attempted |-> TRUE]
    ELSE LET h == [id |-> n + 1, name |-> ResolveName(arg, e)]
         IN  [outcome |-> "returned", exc |-> None, handle |-> h,
              fresh |-> TRUE,
              cache |-> [full |-> TRUE, key |-> arg, handle |-> h],
              created |-> n + 1,
              ran |-> TRUE, resolved |-> ResolveName(arg, e),
              envRead |-> ReadsEnv(arg), attempted |-> TRUE]

\* the state a get_session call made inside any operation leaves behind
SessionEffect(r, arg) ==
    /\ cache' = r.cache
    /\ created' = r.created
    /\ given' = IF r.outcome = "returned"
                THEN [given EXCEPT ![arg] = r.handle] ELSE given
    /\ lastKey' = IF r.outcome = "returned" THEN arg ELSE lastKey

NoSessionEffect == UNCHANGED <<cache, created, given, lastKey>>

GetSession(arg, connOk) ==
    LET r == SessionCall(cache, created, arg, env, store, connOk) IN
    /\ r.created <= MaxHandles
    /\ SessionEffect(r, arg)
    /\ last' = [op |-> "get_session", arg |-> arg, outcome |-> r.outcome,
                exc |-> r.exc, handle |-> r.handle, fresh |-> r.fresh,
                ran |-> r.ran, resolved |-> r.resolved, envRead |-> r.envRead,
                attempted |-> r.attempted, env |-> env]
    /\ UNCHANGED <<env, store, fs, njobs, hostVars>>

\* get_connection(connection_name): the same resolution and lookup, no cache;
\* the raw connection carries the name it was opened for
GetConnection(arg, connOk) ==
    LET name == ResolveName(arg, env)
        found == ConnectionFound(name, store)
    IN
    /\ last' = [op |-> "get_connection", arg |-> arg,
                outcome |-> IF found /\ connOk THEN "returned" ELSE "raised",
                exc |-> IF ~found THEN "ValueError"
                        ELSE IF ~connOk THEN "ConnectError" ELSE None,
                handle |-> IF found /\ connOk
                           THEN [id |-> 0, name |-> name] ELSE NoHandle,
                fresh |-> found /\ connOk,
                ran |-> TRUE, resolved |-> name, envRead |-> ReadsEnv(arg),
                attempted |-> found, env |-> env]
    /\ UNCHANGED <<cache, created, given, lastKey, env, store, fs, njobs, hostVars>>

ClearSessionCache ==
    /\ cache' = EmptyCache
    /\ given' = [a \in Args |-> NoHandle]
    /\ lastKey' = NoKey
    /\ last' = [op |-> "clear_session_cache", outcome |-> "returned"]
    /\ UNCHANGED <<created, env, store, fs, njobs, hostVars>>

\* the environment changes the connection-name override between calls
SetEnv(v) ==
    /\ v # env
    /\ env' = v
    /\ UNCHANGED <<cache, created, given, lastKey, store, fs, njobs, last, hostVars>>


----------------------------------------------------------------------------
\* SQL text.  A text is a sequence of tokens: comment lines ("-- ..."),
\* newlines, statement bodies and the ";" that ends a statement.

Cm(text) == [t |-> "comment", kind |-> text, args |-> <<>>]
NL == [t |-> "nl", kind |-> "", args |-> <<>>]
Semi == [t |-> "semi", kind |-> ";", args |-> <<>>]
St(kind, args) == [t |-> "sql", kind |-> kind, args |-> args]

\* f"{n}" for the node counts
IntStr(n) ==
    CASE n = 0 -> "0" [] n = 1 -> "1" [] n = 2 -> "2" [] n = 3 -> "3"
      [] OTHER -> "n"

\* f"'0.0.0.0:{port}'"
PortStr(p) ==
    CASE p = 443 -> "'0.0.0.0:443'" [] p = 80 -> "'0.0.0.0:80'"
      [] p = 8080 -> "'0.0.0.0:8080'" [] OTHER -> "'0.0.0.0:?'"

RECURSIVE JoinComma(_)
\* ", ".join(...)
JoinComma(strs) ==
    IF strs = <<>> THEN ""
    ELSE IF Len(strs) = 1 THEN strs[1]
    ELSE strs[1] \o ", " \o JoinComma(Tail(strs))

RECURSIVE JoinLines(_)
\* "\n".join(sql_parts)
JoinLines(parts) ==
    IF parts = <<>> THEN <<>>
    ELSE IF Len(parts) = 1 THEN parts[1]
    ELSE parts[1] \o <<NL>> \o JoinLines(Tail(parts))

\* mutant of DefaultPool: the default is never applied
DefaultPoolMissing(pool_name, project_name) == pool_name

\* pool_name = pool_name or f"{project_name}_pool"
DefaultPool(pool_name, project_name) ==
    IF Falsy(pool_name) THEN project_name \o "_pool" ELSE pool_name

\* allow_ports = allow_ports or [443, 80]   (<<>> stands for None and for [])
DefaultPorts(allow_ports) ==
    IF allow_ports = <<>> THEN <<443, 80>> ELSE allow_ports

\* port_list = ", ".join([f"'0.0.0.0:{port}'" for port in allow_ports])
PortList(allow_ports) ==
    JoinComma([i \in 1..Len(allow_ports) |-> PortStr(allow_ports[i])])

\* sql.split(";"): the chunks between the ";" tokens, one more than the ";"
SplitSemi(toks) ==
    LET semis == {i \in 1..Len(toks) : toks[i] = Semi}
        n == Cardinality(semis)
        pos(k) == IF k = 0 THEN 0
                  ELSE IF k = n + 1 THEN Len(toks) + 1
                  ELSE CHOOSE i \in semis :
                           Cardinality({j \in semis : j < i}) = k - 1
    IN  [k \in 1..(n + 1) |-> SubSeq(toks, pos(k - 1) + 1, pos(k) - 1)]

\* s.strip(): leading and trailing whitespace removed
Strip(chunk) ==
    LET idx == {i \in 1..Len(chunk) : chunk[i] # NL} IN
    IF idx = {} THEN <<>>
    ELSE SubSeq(chunk, CHOOSE i \in idx : \A j \in idx : i <= j,
                       CHOOSE i \in idx : \A j \in idx : j <= i)

\* s.strip().startswith("--")
StartsWithComment(chunk) == chunk # <<>> /\ chunk[1].t = "comment"

\* the filter of the statements comprehension
KeepChunk(chunk) == Strip(chunk) # <<>> /\ ~StartsWithComment(Strip(chunk))

\* statements = [s.strip() for s in sql.split(";")
\*               if s.strip() and not s.strip().startswith("--")]
Statements(sql) ==
    LET chunks == SplitSemi(sql)
        kept == SelectSeq(chunks, KeepChunk)
    IN  [i \in 1..Len(kept) |-> Strip(kept[i])]

\* mutant of RunStatements: the first failing statement ends the run
RunStatementsAbort(stmts, fails) ==
    LET bad == {i \in 1..Len(stmts) : i \in fails} IN
    IF bad = {} THEN
        [raised |-> FALSE,
         trace |-> [i \in 1..Len(stmts) |->
                       [ev |-> "sql", stmt |-> stmts[i], ok |-> TRUE]]]
    ELSE LET f == CHOOSE i \in bad : \A j \in bad : i <= j IN
        [raised |-> TRUE,
         trace |-> [i \in 1..f |->
                       [ev |-> "sql", stmt |-> stmts[i], ok |-> i # f]]]

\* for stmt in statements: try: session.sql(stmt).collect() except Exception: warn
\* fails: the statements whose execution raises
RunStatements(stmts, fails) ==
    [raised |-> FALSE,
     trace |-> [i \in 1..Len(stmts) |->
                   [ev |-> "sql", stmt |-> stmts[i], ok |-> i \notin fails]]]

NoResult == [status |-> None]

\* the f-string template of setup
SetupSql(project_name, database, instance_family, stage_name, pool, eai_name, ports, min_nodes, max_nodes) ==
    << Cm("Snowflake Remote Dev Setup"), NL,
       Cm("Project: " \o project_name), NL,
       NL,
       St("USE ROLE", <<"ACCOUNTADMIN">>), Semi, NL,
       NL,
       Cm("Create Database"), NL,
       St("CREATE DATABASE IF NOT EXISTS", <<database>>), Semi, NL,
       St("USE DATABASE", <<database>>), Semi, NL,
       NL,
       Cm("Create Network Rule for External Access"), NL,
       St("CREATE OR REPLACE NETWORK RULE",
          <<eai_name \o "_rule", "EGRESS", "HOST_PORT", PortList(ports)>>),
       Semi, NL,
       NL,
       Cm("Create External Access Integration"), NL,
       St("CREATE OR REPLACE EXTERNAL ACCESS INTEGRATION",
          <<eai_name, eai_name \o "_rule", "true">>), Semi, NL,
       NL,
       Cm("Grant permissions"), NL,
       St("GRANT USAGE ON INTEGRATION", <<eai_name, "ACCOUNTADMIN">>), Semi, NL,
       NL,
       Cm("Create Stage for Persistent Storage"), NL,
       St("CREATE STAGE IF NOT EXISTS", <<stage_name, "SNOWFLAKE_SSE">>),
       Semi, NL,
       NL,
       Cm("Create Compute Pool"), NL,
       St("CREATE COMPUTE POOL IF NOT EXISTS",
          <<pool, IntStr(min_nodes), IntStr(max_nodes), instance_family>>),
       Semi, NL,
       NL,
       Cm("Show created resources"), NL,
       St("SHOW COMPUTE POOLS LIKE", <<pool>>), Semi, NL >>

\* mutant of Executes: the text is run whatever execute says
ExecutesAlways(execute) == TRUE

\* "if execute:" guards get_session and the statement loop
Executes(execute) == execute

\* the execute branch once the text is rendered: r is the outcome of
\* get_session(connection_name), stmts the split text
ExecuteSql(connection_name, r, stmts, fails) ==
    LET ev == [ev |-> "get_session", arg |-> connection_name,
               ok |-> r.outcome = "returned"]
    IN  IF r.outcome = "raised"
        THEN [outcome |-> "raised", exc |-> r.exc, trace |-> <<ev>>]
        ELSE \* session.sql(stmt).collect() for every statement
             LET run == RunStatements(stmts, fails) IN
             IF run.raised
             THEN [outcome |-> "raised", exc |-> "SqlError",
                   trace |-> <<ev>> \o run.trace]
             ELSE [outcome |-> "returned", exc |-> None,
                   trace |-> <<ev>> \o run.trace]

Setup(connection_name, project_name, database, instance_family, stage_name, pool_name, eai_name, allow_ports, min_nodes, max_nodes, execute, connOk) ==
    \E pool \in {DefaultPool(pool_name, project_name)} :
    \E sql \in {SetupSql(project_name, database, instance_family, stage_name,
                         pool, eai_name, DefaultPorts(allow_ports),
                         min_nodes, max_nodes)} :
    LET result == [database |-> database, compute_pool |-> pool,
                   stage |-> stage_name, eai_name |-> eai_name,
                   instance_family |-> instance_family, sql |-> sql]
        args == [connection_name |-> connection_name,
                 project_name |-> project_name, database |-> database,
                 instance_family |-> instance_family,
                 stage_name |-> stage_name, pool_name |-> pool_name,
                 eai_name |-> eai_name, allow_ports |-> allow_ports,
                 min_nodes |-> min_nodes, max_nodes |-> max_nodes,
                 execute |-> execute]
    IN
    /\ IF Executes(execute)
       THEN \E r \in {SessionCall(cache, created, connection_name, env, store,
                                  connOk)},
               stmts \in {Statements(sql)} :
            \E fails \in (IF r.outcome = "raised" THEN {{}}
                          ELSE SUBSET (1..Len(stmts))) :
            \E x \in {ExecuteSql(connection_name, r, stmts, fails)} :
            /\ r.created <= MaxHandles
            /\ SessionEffect(r, connection_name)
            /\ last' = [op |-> "setup", args |-> args, outcome |-> x.outcome,
                        exc |-> x.exc, trace |-> x.trace,
                        result |-> IF x.outcome = "returned"
                                   THEN result @@ [status |-> "complete"]
                                   ELSE NoResult]
       ELSE /\ connOk
            /\ NoSessionEffect
            /\ last' = [op |-> "setup", args |-> args, outcome |-> "returned",
                        exc |-> None, trace |-> <<>>,
                        result |-> result @@ [status |-> "sql_generated"]]
    /\ UNCHANGED <<env, store, fs, njobs, hostVars>>

\* mutant of TeardownParts: the stage is dropped whatever keep_stage says
TeardownPartsDropStage(project_name, database, pool, stage_name, eai_name, keep_stage, keep_database) ==
    << <<Cm("Teardown for project: " \o project_name)>>,
       <<St("USE ROLE", <<"ACCOUNTADMIN">>), Semi>>,
       <<NL, Cm("Suspend and drop compute pool")>>,
       <<St("ALTER COMPUTE POOL IF EXISTS STOP ALL", <<pool>>), Semi>>,
       <<St("ALTER COMPUTE POOL IF EXISTS SUSPEND", <<pool>>), Semi>>,
       <<St("DROP COMPUTE POOL IF EXISTS", <<pool>>), Semi>>,
       <<NL, Cm("Drop External Access Integration")>>,
       <<St("DROP INTEGRATION IF EXISTS", <<eai_name>>), Semi>>,
       <<St("DROP NETWORK RULE IF EXISTS",
            <<database \o ".PUBLIC." \o eai_name \o "_rule">>), Semi>>,
       <<NL, Cm("Drop Stage (WARNING: deletes all files!)")>>,
       <<St("DROP STAGE IF EXISTS",
            <<database \o ".PUBLIC." \o stage_name>>), Semi>> >>
    \o (IF ~keep_database
        THEN << <<NL, Cm("Drop Database")>>,
                <<St("DROP DATABASE IF EXISTS", <<database>>), Semi>> >>
        ELSE <<>>)

\* the sql_parts list of teardown
TeardownParts(project_name, database, pool, stage_name, eai_name, keep_stage, keep_database) ==
    << <<Cm("Teardown for project: " \o project_name)>>,
       <<St("USE ROLE", <<"ACCOUNTADMIN">>), Semi>>,
       <<NL, Cm("Suspend and drop compute pool")>>,
       <<St("ALTER COMPUTE POOL IF EXISTS STOP ALL", <<pool>>), Semi>>,
       <<St("ALTER COMPUTE POOL IF EXISTS SUSPEND", <<pool>>), Semi>>,
       <<St("DROP COMPUTE POOL IF EXISTS", <<pool>>), Semi>>,
       <<NL, Cm("Drop External Access Integration")>>,
       <<St("DROP INTEGRATION IF EXISTS", <<eai_name>>), Semi>>,
       <<St("DROP NETWORK RULE IF EXISTS",
            <<database \o ".PUBLIC." \o eai_name \o "_rule">>), Semi>> >>
    \o (IF ~keep_stage
        THEN << <<NL, Cm("Drop Stage (WARNING: deletes all files!)")>>,
                <<St("DROP STAGE IF EXISTS",
                     <<database \o ".PUBLIC." \o stage_name>>), Semi>> >>
        ELSE <<>>)
    \o (IF ~keep_database
        THEN << <<NL, Cm("Drop Database")>>,
                <<St("DROP DATABASE IF EXISTS", <<database>>), Semi>> >>
        ELSE <<>>)

Teardown(connection_name, project_name, database, pool_name, stage_name, eai_name, keep_stage, keep_database, execute, connOk) ==
    \E pool \in {DefaultPool(pool_name, project_name)} :
    \E sql \in {JoinLines(TeardownParts(project_name, database, pool,
                                        stage_name, eai_name,
                                        keep_stage, keep_database))} :
    LET result == [project_name |-> project_name, database |-> database,
                   compute_pool |-> pool, stage_preserved |-> keep_stage,
                   database_preserved |-> keep_database, sql |-> sql]
        args == [connection_name |-> connection_name,
                 project_name |-> project_name, database |-> database,
                 pool_name |-> pool_name, stage_name |-> stage_name,
                 eai_name |-> eai_name, keep_stage |-> keep_stage,
                 keep_database |-> keep_database, execute |-> execute]
    IN
    /\ IF Executes(execute)
       THEN \E r \in {SessionCall(cache, created, connection_name, env, store,
                                  connOk)},
               stmts \in {Statements(sql)} :
            \E fails \in (IF r.outcome = "raised" THEN {{}}
                          ELSE SUBSET (1..Len(stmts))) :
            \E x \in {ExecuteSql(connection_name, r, stmts, fails)} :
            /\ r.created <= MaxHandles
            /\ SessionEffect(r, connection_name)
            /\ last' = [op |-> "teardown", args |-> args,
                        outcome |-> x.outcome, exc |-> x.exc,
                        trace |-> x.trace,
                        result |-> IF x.outcome = "returned"
                                   THEN result @@ [status |-> "complete"]
                                   ELSE NoResult]
       ELSE /\ connOk
            /\ NoSessionEffect
            /\ last' = [op |-> "teardown", args |-> args,
                        outcome |-> "returned", exc |-> None, trace |-> <<>>,
                        result |-> result @@ [status |-> "sql_generated"]]
    /\ UNCHANGED <<env, store, fs, njobs, hostVars>>


----------------------------------------------------------------------------
\* sfml/jobs: submission and status

\* status strings of the external job service
Statuses == {"PENDING", "RUNNING", "DONE", "FAILED"}
Terminal == {"DONE", "FAILED"}

\* a later read of job.status given an earlier one: a job only moves forward
Advances(s, t) ==
    \/ s = t
    \/ s = "PENDING" /\ t \in {"RUNNING", "DONE", "FAILED"}
    \/ s = "RUNNING" /\ t \in Terminal

\* str.upper() on a status string
Upper(s) ==
    CASE s \in {"done", "Done"} -> "DONE"
      [] s \in {"failed", "Failed"} -> "FAILED"
      [] OTHER -> s

\* what job.result() does: raises, returns a falsy value, returns a payload
FetchOutcomes(status) ==
    IF status = "DONE" THEN {"raises", "empty", "payload"} ELSE {"raises", "empty"}

\* mutant of FetchResult: the error of job.result() is not swallowed
FetchResultRaising(result, trace, fetch) ==
    LET ev == [ev |-> "result", ok |-> fetch # "raises"] IN
    IF fetch = "raises"
    THEN [outcome |-> "raised", exc |-> "ResultError", result |-> NoResult,
          trace |-> trace \o <<ev>>]
    ELSE [outcome |-> "returned", exc |-> None,
          result |-> IF fetch = "payload"
                     THEN result @@ [result |-> "payload"] ELSE result,
          trace |-> trace \o <<ev>>]

\* try: job_result = job.result(); if job_result: result["result"] = job_result
\* except Exception: pass
FetchResult(result, trace, fetch) ==
    LET ev == [ev |-> "result", ok |-> fetch # "raises"] IN
    [outcome |-> "returned", exc |-> None,
     result |-> IF fetch = "payload"
                THEN result @@ [result |-> "payload"] ELSE result,
     trace |-> trace \o <<ev>>]

\* mutant of AfterSubmit: the status read at submission is kept after the wait
AfterSubmitStale(result, trace, wait, timeout, waitOk, final, fetch) ==
    IF ~wait
    THEN [outcome |-> "returned", exc |-> None, result |-> result,
          trace |-> trace]
    ELSE LET w == [ev |-> "wait", timeout |-> timeout, ok |-> waitOk] IN
         IF ~waitOk
         THEN [outcome |-> "raised", exc |-> "WaitError", result |-> NoResult,
               trace |-> trace \o <<w>>]
         ELSE FetchResult(result, trace \o <<w>>, fetch)

\* the tail shared by submit_file and submit_directory: if wait: job.wait(...),
\* re-read the status, try to fetch the result; return result
AfterSubmit(result, trace, wait, timeout, waitOk, final, fetch) ==
    IF ~wait
    THEN [outcome |-> "returned", exc |-> None, result |-> result,
          trace |-> trace]
    ELSE LET w == [ev |-> "wait", timeout |-> timeout, ok |-> waitOk] IN
         IF ~waitOk
         THEN [outcome |-> "raised", exc |-> "WaitError", result |-> NoResult,
               trace |-> trace \o <<w>>]
         ELSE FetchResult([result EXCEPT !.status = final],
                          trace \o <<w, [ev |-> "status", value |-> final]>>,
                          fetch)

\* mutant of PathExists: the check is skipped
PathExistsAlways(path, files) == TRUE

\* Path(p).exists()
PathExists(path, files) == path \in files

\* File names are sequences of characters, so that patterns can be matched.
N_t_py == <<"t", ".", "p", "y">>
N_m_py == <<"m", ".", "p", "y">>
N_a_pyc == <<"a", ".", "p", "y", "c">>
N_m_pyc == <<"m", ".", "p", "y", "c">>
N_c_pyc == <<"c", ".", "p", "y", "c">>
N_n_txt == <<"n", ".", "t", "x", "t">>
N_cfg == <<"c", "f", "g">>
N_pkg == <<"p", "k", "g">>
N_git == <<".", "g", "i", "t">>
N_pycache == <<"_", "_", "p", "y", "c", "a", "c", "h", "e", "_", "_">>
N_pytest_cache == <<".", "p", "y", "t", "e", "s", "t", "_", "c", "a", "c", "h", "e">>

\* exclude = exclude_patterns or ["__pycache__", "*.pyc", ".pytest_cache", ".git"]
\* (<<>> stands for None and for [])
DefaultExclude == <<N_pycache, <<"*", ".", "p", "y", "c">>, N_pytest_cache, N_git>>
ExcludeOf(exclude_patterns) ==
    IF exclude_patterns = <<>> THEN DefaultExclude ELSE exclude_patterns

RECURSIVE Fnmatch(_, _)
\* fnmatch.fnmatch(name, pat) for patterns made of characters, "*" and "?"
Fnmatch(name, pat) ==
    IF pat = <<>> THEN name = <<>>
    ELSE IF Head(pat) = "*"
    THEN Fnmatch(name, Tail(pat)) \/ (name # <<>> /\ Fnmatch(Tail(name), pat))
    ELSE IF name = <<>> THEN FALSE
    ELSE (Head(pat) = "?" \/ Head(pat) = Head(name))
         /\ Fnmatch(Tail(name), Tail(pat))

\* shutil.ignore_patterns(*patterns)(path, names): the names to leave out
IgnoredNames(names, pats) ==
    {n \in names : \E i \in 1..Len(pats) : Fnmatch(n, pats[i])}

\* an entry is [path |-> <<name, ...>>, kind |-> "file" | "dir"], the path
\* relative to the directory; the entries directly inside directory dir
Children(t, dir) ==
    {e \in t : /\ Len(e.path) = Len(dir) + 1
               /\ SubSeq(e.path, 1, Len(dir)) = dir}

LastName(e) == e.path[Len(e.path)]

\* mutant of CopyTree: the ignore callback is used for the top directory only
RECURSIVE CopyTreeTopOnly(_, _, _)
CopyTreeTopOnly(t, dir, pats) ==
    LET here == Children(t, dir)
        ignored == IF dir = <<>>
                   THEN IgnoredNames({LastName(e) : e \in here}, pats) ELSE {}
        kept == {e \in here : LastName(e) \notin ignored}
    IN  kept \cup UNION {CopyTreeTopOnly(t, e.path, pats) :
                            e \in {k \in kept : k.kind = "dir"}}

\* shutil.copytree(src, dst, ignore=...): in every directory the ignored names
\* are skipped, directories are copied recursively, files are copied
RECURSIVE CopyTree(_, _, _)
CopyTree(t, dir, pats) ==
    LET here == Children(t, dir)
        ignored == IgnoredNames({LastName(e) : e \in here}, pats)
        kept == {e \in here : LastName(e) \notin ignored}
    IN  kept \cup UNION {CopyTree(t, e.path, pats) :
                            e \in {k \in kept : k.kind = "dir"}}

\* the scratch copy made by submit_directory: tmpdir / dir_path.name
ScratchCopy(dir_path) == "tmp/" \o dir_path

SubmitFile(file_path, compute_pool, connection_name, wait, timeout) ==
    LET args == [file_path |-> file_path, compute_pool |-> compute_pool,
                 connection_name |-> connection_name, wait |-> wait,
                 timeout |-> timeout]
        fail(exc, trace) == [op |-> "submit_file", args |-> args,
                             outcome |-> "raised", exc |-> exc,
                             trace |-> trace, result |-> NoResult]
    IN
    /\ UNCHANGED <<env, store, fs, hostVars>>
    /\ IF ~PathExists(file_path, fs)
       THEN /\ last' = fail("FileNotFoundError", <<>>)
            /\ NoSessionEffect /\ UNCHANGED njobs
       ELSE \E connOk \in BOOLEAN :
            \E r \in {SessionCall(cache, created, connection_name, env, store,
                                  connOk)} :
            LET gs == [ev |-> "get_session", arg |-> connection_name,
                       ok |-> r.outcome = "returned"] IN
            /\ r.created <= MaxHandles
            /\ SessionEffect(r, connection_name)
            /\ IF r.outcome = "raised"
               THEN /\ last' = fail(r.exc, <<gs>>) /\ UNCHANGED njobs
               ELSE \E submitOk \in BOOLEAN :
                    LET sub == [ev |-> "submit", path |-> file_path,
                                ok |-> submitOk] IN
                    IF ~submitOk
                    THEN /\ last' = fail("SubmitError", <<gs, sub>>)
                         /\ UNCHANGED njobs
                    ELSE /\ njobs < MaxJobs
                         /\ njobs' = njobs + 1
                         /\ \E s0 \in Statuses, waitOk \in BOOLEAN :
                            \E final \in {t \in Terminal : Advances(s0, t)} :
                            \E fetch \in FetchOutcomes(final) :
                            \E x \in {AfterSubmit(
                                  [job_id |-> njobs + 1, status |-> s0,
                                   file |-> file_path,
                                   compute_pool |-> compute_pool],
                                  <<gs, sub, [ev |-> "status", value |-> s0]>>,
                                  wait, timeout, waitOk, final, fetch)} :
                            last' = [op |-> "submit_file", args |-> args,
                                     outcome |-> x.outcome, exc |-> x.exc,
                                     trace |-> x.trace, result |-> x.result]

\* mutant of WithScratch: the copy is left behind when the submission raises
WithScratchKeptOnError(dir_path, staged, submitOk) ==
    LET cp == [ev |-> "copytree", src |-> dir_path,
               dst |-> ScratchCopy(dir_path), copied |-> staged]
        sub == [ev |-> "submit", path |-> ScratchCopy(dir_path), ok |-> submitOk]
        rm == [ev |-> "cleanup", path |-> ScratchCopy(dir_path)]
    IN  IF submitOk THEN <<cp, sub, rm>> ELSE <<cp, sub>>

\* with tempfile.TemporaryDirectory() as tmpdir: copytree into tmpdir, hand
\* the copy to sf_submit_directory; leaving the block, by return or by
\* exception, removes tmpdir
WithScratch(dir_path, staged, submitOk) ==
    LET cp == [ev |-> "copytree", src |-> dir_path,
               dst |-> ScratchCopy(dir_path), copied |-> staged]
        sub == [ev |-> "submit", path |-> ScratchCopy(dir_path), ok |-> submitOk]
        rm == [ev |-> "cleanup", path |-> ScratchCopy(dir_path)]
    IN  <<cp, sub, rm>>

SubmitDirectory(dir_path, entrypoint, compute_pool, connection_name, target_instances, wait, timeout, exclude_patterns) ==
    LET args == [dir_path |-> dir_path, entrypoint |-> entrypoint,
                 compute_pool |-> compute_pool,
                 connection_name |-> connection_name,
                 target_instances |-> target_instances, wait |-> wait,
                 timeout |-> timeout, exclude_patterns |-> exclude_patterns]
        fail(exc, trace) == [op |-> "submit_directory", args |-> args,
                             outcome |-> "raised", exc |-> exc,
                             trace |-> trace, result |-> NoResult]
    IN
    /\ UNCHANGED <<env, store, fs, hostVars>>
    /\ IF ~PathExists(dir_path, fs)
       THEN /\ last' = fail("FileNotFoundError", <<>>)
            /\ NoSessionEffect /\ UNCHANGED njobs
       ELSE \E connOk \in BOOLEAN :
            \E r \in {SessionCall(cache, created, connection_name, env, store,
                                  connOk)},
               staged \in {CopyTree(tree, <<>>, ExcludeOf(exclude_patterns))} :
            LET gs == [ev |-> "get_session", arg |-> connection_name,
                       ok |-> r.outcome = "returned"]
            IN
            /\ r.created <= MaxHandles
            /\ SessionEffect(r, connection_name)
            /\ IF r.outcome = "raised"
               THEN /\ last' = fail(r.exc, <<gs>>) /\ UNCHANGED njobs
               ELSE \E submitOk \in BOOLEAN :
                    LET blk == WithScratch(dir_path, staged, submitOk) IN
                    IF ~submitOk
                    THEN /\ last' = fail("SubmitError", <<gs>> \o blk)
                         /\ UNCHANGED njobs
                    ELSE /\ njobs < MaxJobs
                         /\ njobs' = njobs + 1
                         /\ \E s0 \in Statuses, waitOk \in BOOLEAN :
                            \E final \in {t \in Terminal : Advances(s0, t)} :
                            \E fetch \in FetchOutcomes(final) :
                            \E x \in {AfterSubmit(
                                  [job_id |-> njobs + 1, status |-> s0,
                                   directory |-> dir_path,
                                   entrypoint |-> entrypoint,
                                   compute_pool |-> compute_pool,
                                   instances |-> target_instances],
                                  <<gs>> \o blk
                                    \o <<[ev |-> "status", value |-> s0]>>,
                                  wait, timeout, waitOk, final, fetch)} :
                            last' = [op |-> "submit_directory", args |-> args,
                                     outcome |-> x.outcome, exc |-> x.exc,
                                     trace |-> x.trace, result |-> x.result]

\* mutant of ShouldFetch: the result is fetched whatever the status
ShouldFetchAlways(status) == TRUE

\* if str(job.status).upper() == "DONE":
ShouldFetch(status) == Upper(status) = "DONE"

GetJobStatus(job_id, connection_name) ==
    LET args == [job_id |-> job_id, connection_name |-> connection_name]
        fail(exc, trace) == [op |-> "get_job_status", args |-> args,
                             outcome |-> "raised", exc |-> exc,
                             trace |-> trace, result |-> NoResult]
    IN
    /\ UNCHANGED <<env, store, fs, njobs, hostVars>>
    /\ \E connOk \in BOOLEAN :
       \E r \in {SessionCall(cache, created, connection_name, env, store,
                             connOk)} :
       LET gs == [ev |-> "get_session", arg |-> connection_name,
                  ok |-> r.outcome = "returned"]
           gj == [ev |-> "get_job", job_id |-> job_id, ok |-> job_id <= njobs]
       IN
       /\ r.created <= MaxHandles
       /\ SessionEffect(r, connection_name)
       /\ IF r.outcome = "raised" THEN last' = fail(r.exc, <<gs>>)
          ELSE IF job_id > njobs THEN last' = fail("JobNotFound", <<gs, gj>>)
          ELSE \E s0 \in Statuses :
               \E s1 \in {t \in Statuses : Advances(s0, t)} :
               LET result == [job_id |-> job_id, status |-> s0]
                   trace == <<gs, gj, [ev |-> "status", value |-> s0],
                              [ev |-> "status", value |-> s1]>>
               IN
               IF ShouldFetch(s1)
               THEN \E fetch \in FetchOutcomes(s1) :
                    \E x \in {FetchResult(result, trace, fetch)} :
                    last' = [op |-> "get_job_status", args |-> args,
                             outcome |-> x.outcome, exc |-> x.exc,
                             trace |-> x.trace, result |-> x.result]
               ELSE last' = [op |-> "get_job_status", args |-> args,
                             outcome |-> "returned", exc |-> None,
                             trace |-> trace, result |-> result]

----------------------------------------------------------------------------
----------------------------------------------------------------------------
\* The credential lookup of sfml/session.py

\* os.path.expanduser(key_path)
ExpandUser(path) ==
    CASE path = "~/k.p8" -> "/home/me/k.p8"
      [] path = "~/enc.p8" -> "/home/me/enc.p8"
      [] OTHER -> path

\* _load_private_key(key_path): the DER bytes of the PEM key in the file; a
\* missing file and a key that needs a password raise
LoadPrivateKey(key_path) ==
    LET file == ExpandUser(key_path) IN
    CASE file = "/home/me/k.p8" ->
           [outcome |-> "returned", exc |-> None, file |-> file, key |-> "DER:k"]
      [] file = "/home/me/enc.p8" ->
           [outcome |-> "raised", exc |-> "TypeError", file |-> file, key |-> ""]
      [] OTHER ->
           [outcome |-> "raised", exc |-> "FileNotFoundError", file |-> file, key |-> ""]

\* d.pop(k, None): the dict without the key
DictPop(d, k) == {p \in d : p[1] # k}

\* d[k] = v
DictSet(d, k, v) == DictPop(d, k) \cup {<<k, v>>}

\* conn_config.get("authenticator") == "SNOWFLAKE_JWT"
IsJwt(entry) == DictGet(entry, "authenticator", None) = "SNOWFLAKE_JWT"

\* _get_connection_config(connection_name), from the copy of the table on
\* (called with a name the store holds)
ConnConfigOf(entry) ==
    IF ~IsJwt(entry)
    THEN [outcome |-> "returned", exc |-> None, trace |-> <<>>, config |-> entry]
    ELSE LET key_path == DictGet(entry, "private_key_path", None)
             popped == DictPop(entry, "private_key_path")
         IN  IF Falsy(key_path)
             THEN [outcome |-> "returned", exc |-> None, trace |-> <<>>,
                   config |-> DictPop(popped, "authenticator")]
             ELSE LET k == LoadPrivateKey(key_path)
                      ev == [ev |-> "read_key", path |-> k.file,
                             ok |-> k.outcome = "returned"]
                  IN  IF k.outcome = "raised"
                      THEN [outcome |-> "raised", exc |-> k.exc,
                            trace |-> <<ev>>, config |-> {}]
                      ELSE [outcome |-> "returned", exc |-> None,
                            trace |-> <<ev>>,
                            config |-> DictPop(DictSet(popped, "private_key", k.key),
                                               "authenticator")]

\* _get_connection_config(connection_name)
GetConnectionConfig(connection_name) ==
    /\ LET call == [op |-> "_get_connection_config",
                    args |-> [connection_name |-> connection_name]]
       IN  IF ~ConnectionFound(connection_name, store)
           THEN last' = call @@ [outcome |-> "raised", exc |-> "ValueError",
                                 trace |-> <<>>, config |-> {}]
           ELSE \E x \in {ConnConfigOf(creds[connection_name])} :
                last' = call @@ x
    /\ UNCHANGED <<cache, created, given, lastKey, env, store, fs, njobs, hostVars>>

----------------------------------------------------------------------------
\* get_session called from several threads: lru_cache takes its lock for the
\* lookup and for the store, and runs the function body outside the lock

Threads == 1..MaxThreads
IdleThread == [pc |-> "idle", arg |-> None, ret |-> NoHandle]

\* the entry stored under key, if any
LruFind(entries, key) == {i \in 1..Len(entries) : entries[i].key = key}

\* mutant of LruStore: a full cache grows instead of evicting
LruStoreNoEvict(entries, full, key, handle) ==
    IF LruFind(entries, key) # {} THEN [entries |-> entries, full |-> full]
    ELSE [entries |-> Append(entries, [key |-> key, handle |-> handle]),
          full |-> TRUE]

\* the store step of lru_cache(maxsize=1) after the body returned: nothing if
\* another caller stored the key meanwhile, else evict the oldest entry when
\* full, else insert and set full
LruStore(entries, full, key, handle) ==
    IF LruFind(entries, key) # {} THEN [entries |-> entries, full |-> full]
    ELSE IF full
    THEN [entries |-> Append(Tail(entries), [key |-> key, handle |-> handle]),
          full |-> full]
    ELSE [entries |-> Append(entries, [key |-> key, handle |-> handle]),
          full |-> Len(entries) + 1 >= 1]

\* what a thread reports when its call is over
Returned(t, arg, outcome, exc, handle, fresh) ==
    [op |-> "get_session", arg |-> arg, outcome |-> outcome, exc |-> exc,
     handle |-> handle, fresh |-> fresh, thread |-> t]

\* thread t calls get_session(arg): the lookup, under the lock
Lookup(t, arg) ==
    /\ thr[t].pc = "idle"
    /\ LET hit == LruFind(lru, arg) IN
       IF hit # {}
       THEN LET h == lru[CHOOSE i \in hit : TRUE].handle IN
            /\ thr' = [thr EXCEPT ![t] = [pc |-> "returned", arg |-> arg, ret |-> h]]
            /\ last' = Returned(t, arg, "returned", None, h, FALSE)
       ELSE /\ thr' = [thr EXCEPT ![t] = [pc |-> "body", arg |-> arg, ret |-> NoHandle]]
            /\ UNCHANGED last
    /\ UNCHANGED <<cache, created, given, lastKey, env, store, fs, njobs, tree, cfgfiles, proc, creds, lru, lruFull>>

\* the body of get_session, outside the lock
Body(t, connOk) ==
    /\ thr[t].pc = "body"
    /\ LET name == ResolveName(thr[t].arg, env) IN
       IF ~ConnectionFound(name, store)
       THEN /\ thr' = [thr EXCEPT ![t].pc = "raised"]
            /\ last' = Returned(t, thr[t].arg, "raised", "ValueError", NoHandle, FALSE)
            /\ UNCHANGED created
       ELSE IF ~connOk
       THEN /\ thr' = [thr EXCEPT ![t].pc = "raised"]
            /\ last' = Returned(t, thr[t].arg, "raised", "ConnectError", NoHandle, FALSE)
            /\ UNCHANGED created
       ELSE /\ created < MaxHandles
            /\ created' = created + 1
            /\ thr' = [thr EXCEPT ![t].pc = "store",
                                  ![t].ret = [id |-> created + 1, name |-> name]]
            /\ UNCHANGED last
    /\ UNCHANGED <<cache, given, lastKey, env, store, fs, njobs, tree, cfgfiles, proc, creds, lru, lruFull>>

\* the store, under the lock, and the return of the handle the body made
Store(t) ==
    /\ thr[t].pc = "store"
    /\ \E x \in {LruStore(lru, lruFull, thr[t].arg, thr[t].ret)} :
          lru' = x.entries /\ lruFull' = x.full
    /\ thr' = [thr EXCEPT ![t].pc = "returned"]
    /\ last' = Returned(t, thr[t].arg, "returned", None, thr[t].ret, TRUE)
    /\ UNCHANGED <<cache, created, given, lastKey, env, store, fs, njobs, tree, cfgfiles, proc, creds>>

\* the caller goes on and may call again
Finish(t) ==
    /\ thr[t].pc \in {"returned", "raised"}
    /\ thr' = [thr EXCEPT ![t] = IdleThread]
    /\ UNCHANGED <<cache, created, given, lastKey, env, store, fs, njobs, tree, cfgfiles, proc, creds, lru, lruFull, last>>

\* thread t calls clear_session_cache: cache_clear, under the lock
ThreadClear(t) ==
    /\ thr[t].pc = "idle"
    /\ lru' = <<>>
    /\ lruFull' = FALSE
    /\ last' = [op |-> "clear_session_cache", outcome |-> "returned", thread |-> t]
    /\ UNCHANGED <<cache, created, given, lastKey, env, store, fs, njobs, tree, cfgfiles, proc, creds, thr>>

-----------------------------------------------------------------------------
\* The configuration loader (config.py)

\* the dataclass defaults
ProjectDefaults == [name |-> "ml_dev", database |-> "ML_DEV"]
ComputeDefaults == [pool_name |-> "ml_dev_pool", instance_family |-> "CPU_X64_M", min_nodes |-> 1, max_nodes |-> 1]
StorageDefaults == [stage_name |-> "DEV_STAGE", encryption |-> "SNOWFLAKE_SSE"]
NetworkDefaults == [eai_name |-> "ALLOW_ALL_INTEGRATION", allow_ports |-> <<443, 80>>]

Sections == {"project", "compute", "storage", "network"}

SectionDefaults(sec) ==
    CASE sec = "project" -> ProjectDefaults
      [] sec = "compute" -> ComputeDefaults
      [] sec = "storage" -> StorageDefaults
      [] sec = "network" -> NetworkDefaults

\* Config(): every section and the connection name at their defaults
BuiltinConfig ==
    [connection_name |-> "default", project |-> ProjectDefaults,
     compute |-> ComputeDefaults, storage |-> StorageDefaults,
     network |-> NetworkDefaults]

\* mutant of Construct: a section that does not give every field is dropped
ConstructAllOrNothing(defaults, kwargs) ==
    IF \E p \in kwargs : p[1] \notin DOMAIN defaults
    THEN [outcome |-> "raised", exc |-> "TypeError", value |-> defaults]
    ELSE [outcome |-> "returned", exc |-> None,
          value |-> IF \A f \in DOMAIN defaults : HasKey(kwargs, f)
                    THEN [f \in DOMAIN defaults |-> DictGet(kwargs, f, defaults[f])]
                    ELSE defaults]

\* XConfig(**kwargs): an unknown keyword is a TypeError, a keyword that is
\* not given takes the dataclass default
Construct(defaults, kwargs) ==
    IF \E p \in kwargs : p[1] \notin DOMAIN defaults
    THEN [outcome |-> "raised", exc |-> "TypeError", value |-> defaults]
    ELSE [outcome |-> "returned", exc |-> None,
          value |-> [f \in DOMAIN defaults |-> DictGet(kwargs, f, defaults[f])]]

\* XConfig(**x_data) if x_data else XConfig(), with x_data = data.get(x, {})
SectionOf(data, sec) ==
    LET x_data == DictGet(data, sec, {}) IN
    IF x_data # {} THEN Construct(SectionDefaults(sec), x_data)
    ELSE Construct(SectionDefaults(sec), {})

\* Config.from_dict(data)
FromDict(data) ==
    LET built == [sec \in Sections |-> SectionOf(data, sec)] IN
    IF \E sec \in Sections : built[sec].outcome = "raised"
    THEN [outcome |-> "raised", exc |-> "TypeError", config |-> BuiltinConfig]
    ELSE [outcome |-> "returned", exc |-> None,
          config |-> [connection_name |-> DictGet(data, "connection_name", "default"),
                      project |-> built["project"].value,
                      compute |-> built["compute"].value,
                      storage |-> built["storage"].value,
                      network |-> built["network"].value]]

\* mutant of ToDict: the allowed ports are left out
ToDictNoPorts(c) ==
    { <<"connection_name", c.connection_name>>,
      <<"project", {<<"name", c.project.name>>, <<"database", c.project.database>>}>>,
      <<"compute", {<<"pool_name", c.compute.pool_name>>,
                    <<"instance_family", c.compute.instance_family>>,
                    <<"min_nodes", c.compute.min_nodes>>,
                    <<"max_nodes", c.compute.max_nodes>>}>>,
      <<"storage", {<<"stage_name", c.storage.stage_name>>,
                    <<"encryption", c.storage.encryption>>}>>,
      <<"network", {<<"eai_name", c.network.eai_name>>}>> }

\* Config.to_dict()
ToDict(c) ==
    { <<"connection_name", c.connection_name>>,
      <<"project", {<<"name", c.project.name>>, <<"database", c.project.database>>}>>,
      <<"compute", {<<"pool_name", c.compute.pool_name>>,
                    <<"instance_family", c.compute.instance_family>>,
                    <<"min_nodes", c.compute.min_nodes>>,
                    <<"max_nodes", c.compute.max_nodes>>}>>,
      <<"storage", {<<"stage_name", c.storage.stage_name>>,
                    <<"encryption", c.storage.encryption>>}>>,
      <<"network", {<<"eai_name", c.network.eai_name>>,
                    <<"allow_ports", c.network.allow_ports>>}>> }

\* Config.from_dict(c.to_dict())
Rebuild(c) ==
    /\ \E d \in {ToDict(c)} :
       \E r \in {FromDict(d)} :
       last' = [op |-> "rebuild", args |-> [config |-> c], outcome |-> r.outcome,
                exc |-> r.exc, trace |-> <<>>,
                result |-> [data |-> d, config |-> r.config]]
    /\ UNCHANGED <<cache, created, given, lastKey, env, store, fs, njobs, hostVars>>

\* Config.from_dict(data).to_dict()
Redump(data) ==
    /\ \E r \in {FromDict(data)} :
       last' = [op |-> "redump", args |-> [data |-> data], outcome |-> r.outcome,
                exc |-> r.exc, trace |-> <<>>,
                result |-> IF r.outcome = "returned"
                           THEN [data |-> ToDict(r.config), config |-> r.config]
                           ELSE [data |-> {}, config |-> r.config]]
    /\ UNCHANGED <<cache, created, given, lastKey, env, store, fs, njobs, hostVars>>

\* mutant of SearchPath: the default file is preferred to the user file
SearchPathDefaultFirst(fls) ==
    IF fls[DefaultConfig].exists THEN DefaultConfig ELSE UserConfig

\* path = user_config if user_config.exists() else default_config
SearchPath(fls) ==
    IF fls[UserConfig].exists THEN UserConfig ELSE DefaultConfig

\* Config.load(config_path)
Load(config_path) ==
    LET explicit == ~Falsy(config_path)
        path == IF explicit THEN config_path ELSE SearchPath(cfgfiles)
        probe == IF explicit THEN <<>>
                 ELSE <<[ev |-> "exists", path |-> UserConfig]>>
        looked == probe \o <<[ev |-> "exists", path |-> path]>>
        opened == looked \o <<[ev |-> "open", path |-> path]>>
        call == [op |-> "load", args |-> [config_path |-> config_path]]
    IN
    /\ UNCHANGED <<cache, created, given, lastKey, env, store, fs, njobs, hostVars>>
    /\ \E r \in {FromDict(cfgfiles[path].data)} :
       last' =
         IF ~cfgfiles[path].exists
         THEN call @@ [outcome |-> "returned", exc |-> None, trace |-> looked,
                       result |-> [config |-> BuiltinConfig]]
         ELSE IF ~cfgfiles[path].wellformed
         THEN call @@ [outcome |-> "raised", exc |-> "YAMLError",
                       trace |-> opened, result |-> NoResult]
         ELSE IF r.outcome = "raised"
         THEN call @@ [outcome |-> "raised", exc |-> r.exc,
                       trace |-> opened, result |-> NoResult]
         ELSE call @@ [outcome |-> "returned", exc |-> None, trace |-> opened,
                       result |-> [config |-> r.config]]

-----------------------------------------------------------------------------
\* The wrappers around the snow command line (remote/disconnect.py, connect.py)

\* text the CLI writes is a sequence of characters
Uppercase == <<"A", "B", "C", "D", "E", "F", "G", "H", "I", "J", "K", "L", "M", "N", "O", "P", "Q", "R", "S", "T", "U", "V", "W", "X", "Y", "Z">>
Lowercase == <<"a", "b", "c", "d", "e", "f", "g", "h", "i", "j", "k", "l", "m", "n", "o", "p", "q", "r", "s", "t", "u", "v", "w", "x", "y", "z">>

LowerChar(c) ==
    IF \E i \in 1..Len(Uppercase) : Uppercase[i] = c
    THEN Lowercase[CHOOSE i \in 1..Len(Uppercase) : Uppercase[i] = c]
    ELSE c

\* str.lower()
Lower(text) == [i \in 1..Len(text) |-> LowerChar(text[i])]

\* sub in text
Contains(text, sub) ==
    \E i \in 1..(Len(text) - Len(sub) + 1) :
        SubSeq(text, i, i + Len(sub) - 1) = sub

T_not_found == <<"n", "o", "t", " ", "f", "o", "u", "n", "d">>
T_does_not_exist == <<"d", "o", "e", "s", " ", "n", "o", "t", " ", "e", "x", "i", "s", "t">>

\* mutant of AlreadyStopped: the text is compared without lowering it
AlreadyStoppedCaseSensitive(stderr) ==
    Contains(stderr, T_not_found) \/ Contains(stderr, T_does_not_exist)

\* "not found" in result.stderr.lower() or "does not exist" in result.stderr.lower()
AlreadyStopped(stderr) ==
    Contains(Lower(stderr), T_not_found)
    \/ Contains(Lower(stderr), T_does_not_exist)

\* cmd = ["snow", "remote", "stop", "--name", name] (+ ["--connection", c])
StopCmd(name, connection_name) ==
    <<"snow", "remote", "stop", "--name", name>>
    \o (IF Falsy(connection_name) THEN <<>>
        ELSE <<"--connection", connection_name>>)

\* what disconnect returns for a CLI run that ended with returncode and stderr
StopResult(returncode, stderr) ==
    IF returncode = 0 THEN TRUE
    ELSE AlreadyStopped(stderr)

\* what running the CLI can do: end with a return code and an error text, be
\* absent (FileNotFoundError), fail otherwise (OSError), or be interrupted
Stderrs ==
    { <<>>,
      <<"s", "v", "c", " ", "N", "o", "t", " ", "F", "o", "u", "n", "d">>,
      <<"d", "e", "v", " ", "n", "o", "t", " ", "f", "o", "u", "n", "d">>,
      <<"D", "O", "E", "S", " ", "N", "O", "T", " ", "E", "X", "I", "S", "T">>,
      <<"d", "o", "e", "s", " ", "n", "o", "t", " ", " ", "e", "x", "i", "s", "t">>,
      <<"d", "e", "n", "i", "e", "d">> }
ReturnCodes == {0, 1, 2}
RunOutcomes ==
    [kind : {"exit"}, returncode : ReturnCodes, stderr : Stderrs]
    \cup {[kind |-> k, returncode |-> 0, stderr |-> <<>>] :
             k \in {"FileNotFoundError", "OSError", "KeyboardInterrupt"}}

\* the interpreter runs one call at a time: none while connect waits, and
\* none after sys.exit
Idle == proc = "none" /\ last.outcome # "exited"

\* disconnect(name, connection_name) -> bool
Disconnect(name, connection_name) ==
    /\ Idle
    /\ \E run \in RunOutcomes :
       LET args == [name |-> name, connection_name |-> connection_name]
           ev == [ev |-> "run", cmd |-> StopCmd(name, connection_name),
                  run |-> run]
           call == [op |-> "disconnect", args |-> args, trace |-> <<ev>>]
       IN
       /\ UNCHANGED <<cache, created, given, lastKey, env, store, fs, njobs, hostVars>>
       /\ last' =
            CASE run.kind = "exit" ->
                   call @@ [outcome |-> "returned", exc |-> None,
                            result |-> [ok |-> StopResult(run.returncode, run.stderr)]]
              [] run.kind \in {"FileNotFoundError", "OSError"} ->
                   call @@ [outcome |-> "returned", exc |-> None,
                            result |-> [ok |-> FALSE]]
              [] OTHER ->
                   call @@ [outcome |-> "raised", exc |-> run.kind,
                            result |-> NoResult]

\* mutant of ConnectCmd: "-c" is always passed, "default" when no name is given
ConnectCmdAlwaysConn(name, compute_pool, stage, eai, connection_name, editor) ==
    <<"snow", "remote", editor, name, "--compute-pool", compute_pool, "--eai-name", eai, "--stage", stage>>
    \o <<"-c", IF Falsy(connection_name) THEN "default" ELSE connection_name>>

\* cmd = ["snow", "remote", editor, name, ...] (+ ["-c", connection_name])
ConnectCmd(name, compute_pool, stage, eai, connection_name, editor) ==
    <<"snow", "remote", editor, name, "--compute-pool", compute_pool, "--eai-name", eai, "--stage", stage>>
    \o (IF Falsy(connection_name) THEN <<>> ELSE <<"-c", connection_name>>)

\* connect(...) up to subprocess.run: an absent snow binary ends the process
\* with status 1 at once, otherwise the call waits for the subprocess
ConnectStart(name, compute_pool, stage, eai, connection_name, editor) ==
    /\ Idle
    /\ \E present \in BOOLEAN :
       LET args == [name |-> name, compute_pool |-> compute_pool,
                    stage |-> stage, eai |-> eai,
                    connection_name |-> connection_name, editor |-> editor]
           call == [op |-> "connect", args |-> args,
                    cmd |-> ConnectCmd(name, compute_pool, stage, eai, connection_name, editor)]
       IN
       IF present
       THEN /\ proc' = "running"
            /\ last' = call @@ [outcome |-> "blocked", exc |-> None,
                                ended |-> "running"]
       ELSE /\ proc' = "none"
            /\ last' = call @@ [outcome |-> "exited", exc |-> "SystemExit",
                                sys_exit |-> 1, ended |-> "FileNotFoundError"]
    /\ UNCHANGED <<cache, created, given, lastKey, env, store, fs, njobs, tree, cfgfiles, creds, threadVars>>

\* how a running subprocess can end for the waiting connect
ProcEndings == {"exit 0", "exit 1", "exit 2", "KeyboardInterrupt", "OSError"}

\* the rest of connect: subprocess.run(check=True) comes back
ProcEnds(how) ==
    /\ proc = "running"
    /\ proc' = "none"
    /\ last' =
         CASE how = "exit 0" ->
                [last EXCEPT !.outcome = "returned", !.ended = how]
           [] how = "KeyboardInterrupt" ->
                [last EXCEPT !.outcome = "returned", !.ended = how]
           [] how \in {"exit 1", "exit 2"} ->
                [last EXCEPT !.outcome = "exited", !.exc = "SystemExit",
                             !.ended = how] @@ [sys_exit |-> 1]
           [] OTHER ->
                [last EXCEPT !.outcome = "raised", !.exc = how, !.ended = how]
    /\ UNCHANGED <<cache, created, given, lastKey, env, store, fs, njobs, tree, cfgfiles, creds, threadVars>>

\* the process has just started: nothing cached, no job submitted, no call made
InitCore ==
    /\ cache = EmptyCache
    /\ created = 0
    /\ given = [a \in Args |-> NoHandle]
    /\ lastKey = NoKey
    /\ fs = {"train.py", "project"}
    /\ njobs = 0
    /\ proc = "none"
    /\ lru = <<>>
    /\ lruFull = FALSE
    /\ thr = [t \in Threads |-> IdleThread]
    /\ last = [op |-> "none", outcome |-> "returned"]

\* every connection table holds a password
InitProcess == InitCore /\ creds = PasswordCreds

\* the directory "project" holds one script
PlainTree == {[path |-> <<N_t_py>>, kind |-> "file"]}

Init ==
    /\ InitProcess
    /\ env \in EnvValues
    /\ store = {"myconnection", "dev"}
    /\ tree = PlainTree
    /\ cfgfiles = NoFiles

NextSession ==
    \/ \E arg \in Args, connOk \in BOOLEAN : GetSession(arg, connOk)
    \/ ClearSessionCache
    \/ \E v \in EnvValues : SetEnv(v)

SpecSession == Init /\ [][NextSession]_vars

\* connection tables: password, key pair with a key file (plain, with a
\* password beside it, encrypted, missing), key pair without private_key_path
\* or with an empty one, and another authenticator that has a key path
Account == {<<"account", "acme">>, <<"user", "me">>}
Jwt == {<<"authenticator", "SNOWFLAKE_JWT">>}
Entries ==
    { PasswordEntry,
      Account \cup Jwt \cup {<<"private_key_path", "~/k.p8">>},
      Account \cup Jwt \cup {<<"private_key_path", "~/k.p8">>, <<"password", "pw">>},
      Account \cup Jwt \cup {<<"private_key_path", "~/enc.p8">>},
      Account \cup Jwt \cup {<<"private_key_path", "/keys/gone.p8">>},
      Account \cup Jwt \cup {<<"private_key_file", "~/k.p8">>},
      Account \cup Jwt \cup {<<"private_key_path", "">>},
      Account \cup {<<"authenticator", "externalbrowser">>, <<"private_key_path", "~/k.p8">>} }

ThreadArgs == {None, "dev", "ghost"}

InitThreads ==
    /\ InitProcess
    /\ env = Unset
    /\ store = {"myconnection", "dev"}
    /\ tree = PlainTree
    /\ cfgfiles = NoFiles

\* overlapping get_session and clear_session_cache calls
NextThreads ==
    \/ \E t \in Threads, arg \in ThreadArgs : Lookup(t, arg)
    \/ \E t \in Threads, connOk \in BOOLEAN : Body(t, connOk)
    \/ \E t \in Threads : Store(t)
    \/ \E t \in Threads : Finish(t)
    \/ \E t \in Threads : ThreadClear(t)

SpecThreads == InitThreads /\ [][NextThreads]_vars

\* the credential store: both connections, one of them, or none (the file
\* ~/.snowflake/config.toml is missing or has no connections table)
Stores == {{"myconnection", "dev"}, {"dev"}, {}}
ResolveEnvValues == EnvValues \cup {""}
ResolveArgs == Args \cup {""}

InitResolve ==
    /\ InitProcess
    /\ env \in ResolveEnvValues
    /\ store \in Stores
    /\ tree = PlainTree
    /\ cfgfiles = NoFiles

\* name resolution and lookup over every store, environment and argument
NextResolve ==
    \/ \E arg \in Args, connOk \in BOOLEAN : GetSession(arg, connOk)
    \/ \E arg \in ResolveArgs, connOk \in BOOLEAN : GetConnection(arg, connOk)
    \/ ClearSessionCache
    \/ \E v \in ResolveEnvValues : SetEnv(v)

SpecResolve == InitResolve /\ [][NextResolve]_vars

\* any two tables for myconnection and dev, in any store
InitCreds ==
    /\ InitCore
    /\ \E a \in Entries, b \in Entries :
          creds = [n \in ConnNames |->
                     IF n = "myconnection" THEN a
                     ELSE IF n = "dev" THEN b ELSE PasswordEntry]
    /\ env = Unset
    /\ store \in Stores
    /\ tree = PlainTree
    /\ cfgfiles = NoFiles

NextCreds == \E n \in ConnNames : GetConnectionConfig(n)

SpecCreds == InitCreds /\ [][NextCreds]_vars

\* input sets of setup and teardown
Projects == {"ml_accelerator", "proj"}
Databases == {"ML_ACCELERATOR", "ML_DEV"}
Families == {"CPU_X64_M", "GPU_NV_S"}
Stages == {"DEV_STAGE", "ML_JOBS_STAGE"}
PoolArgs == {None, "ML_ACCEL_TEST_POOL"}
EaiNames == {"ALLOW_ALL_INTEGRATION", "MY_EAI"}
PortArgs == {<<>>, <<8080>>}
NodeCounts == {1, 2}
InfraConns == {"myconnection", "ghost"}

\* rendering only: every parameter varies, nothing is executed
NextRender ==
    \/ \E p \in Projects, d \in Databases, f \in Families, s \in Stages,
          pl \in PoolArgs, e \in EaiNames, ports \in PortArgs,
          mn \in NodeCounts, mx \in NodeCounts :
          Setup("myconnection", p, d, f, s, pl, e, ports, mn, mx, FALSE, TRUE)
    \/ \E p \in Projects, d \in Databases, pl \in PoolArgs, s \in Stages,
          e \in EaiNames, ks \in BOOLEAN, kd \in BOOLEAN :
          Teardown("myconnection", p, d, pl, s, e, ks, kd, FALSE, TRUE)

SpecRender == Init /\ [][NextRender]_vars

\* execution against the session
NextInfra ==
    \/ \E c \in InfraConns, p \in Projects, pl \in PoolArgs,
          connOk \in BOOLEAN :
          Setup(c, p, "ML_ACCELERATOR", "CPU_X64_M", "DEV_STAGE", pl,
                "ALLOW_ALL_INTEGRATION", <<>>, 1, 1, TRUE, connOk)
    \/ \E c \in InfraConns, ks \in BOOLEAN, kd \in BOOLEAN,
          connOk \in BOOLEAN :
          Teardown(c, "proj", "ML_DEV", None, "DEV_STAGE",
                   "ALLOW_ALL_INTEGRATION", ks, kd, TRUE, connOk)
    \/ ClearSessionCache

SpecInfra == Init /\ [][NextInfra]_vars

\* rendering and execution mixed, around sessions obtained directly
NextDryRun ==
    \/ \E c \in InfraConns, p \in Projects, pl \in PoolArgs,
          x \in BOOLEAN, connOk \in BOOLEAN :
          Setup(c, p, "ML_ACCELERATOR", "CPU_X64_M", "DEV_STAGE", pl,
                "ALLOW_ALL_INTEGRATION", <<>>, 1, 1, x, connOk)
    \/ \E c \in InfraConns, ks \in BOOLEAN, x \in BOOLEAN,
          connOk \in BOOLEAN :
          Teardown(c, "proj", "ML_DEV", None, "DEV_STAGE",
                   "ALLOW_ALL_INTEGRATION", ks, TRUE, x, connOk)
    \/ \E arg \in {"dev", "ghost"}, connOk \in BOOLEAN : GetSession(arg, connOk)
    \/ ClearSessionCache

SpecDryRun == Init /\ [][NextDryRun]_vars

\* input sets of the job operations
\* the name the service lists a job under
JobName(id) == "MLJOB_" \o IntStr(id)

\* one row of the frame jobs.list_jobs returns; the column names are lower
\* case or, coming from Snowpark, upper case
Row(id, status, compute_pool, upper) ==
    IF upper
    THEN {<<"NAME", JobName(id)>>, <<"STATUS", status>>, <<"COMPUTE_POOL", compute_pool>>}
    ELSE {<<"name", JobName(id)>>, <<"status", status>>, <<"compute_pool", compute_pool>>}

\* the frame: one row per job the service knows, the most recent first
Listing(n, statusOf, upper) ==
    [i \in 1..n |-> Row(n + 1 - i, statusOf[n + 1 - i], "ML_COMPUTE_POOL", upper)]

\* df.head(n): the first n rows, for negative n all but the last -n rows
DfHead(df, n) ==
    IF n >= 0 THEN SubSeq(df, 1, IF n < Len(df) THEN n ELSE Len(df))
    ELSE SubSeq(df, 1, IF Len(df) + n > 0 THEN Len(df) + n ELSE 0)

\* mutant of Truncate: the frame is returned whole
TruncateKeepsAll(df, limit) == df

\* if len(df) > limit: df = df.head(limit)
Truncate(df, limit) == IF Len(df) > limit THEN DfHead(df, limit) ELSE df

\* the dict built for one row
Summary(row) ==
    [job_id |-> DictGet(row, "name", DictGet(row, "NAME", "")),
     status |-> DictGet(row, "status", DictGet(row, "STATUS", "")),
     compute_pool |-> DictGet(row, "compute_pool", DictGet(row, "COMPUTE_POOL", ""))]

\* list_jobs(connection_name, limit)
ListJobs(connection_name, limit) ==
    LET args == [connection_name |-> connection_name, limit |-> limit]
        fail(exc, trace) == [op |-> "list_jobs", args |-> args,
                             outcome |-> "raised", exc |-> exc,
                             trace |-> trace, result |-> NoResult]
    IN
    /\ UNCHANGED <<env, store, fs, njobs, hostVars>>
    /\ \E connOk \in BOOLEAN :
       \E r \in {SessionCall(cache, created, connection_name, env, store,
                             connOk)} :
       LET gs == [ev |-> "get_session", arg |-> connection_name,
                  ok |-> r.outcome = "returned"]
       IN
       /\ r.created <= MaxHandles
       /\ SessionEffect(r, connection_name)
       /\ IF r.outcome = "raised" THEN last' = fail(r.exc, <<gs>>)
          ELSE \E listOk \in BOOLEAN :
               IF ~listOk
               THEN last' = fail("ListError", <<gs, [ev |-> "list_jobs", ok |-> FALSE, rows |-> <<>>]>>)
               ELSE \E statusOf \in [1..njobs -> Statuses], upper \in BOOLEAN :
                    \E df \in {Listing(njobs, statusOf, upper)} :
                    \E kept \in {Truncate(df, limit)} :
                    last' = [op |-> "list_jobs", args |-> args,
                             outcome |-> "returned", exc |-> None,
                             trace |-> <<gs, [ev |-> "list_jobs", ok |-> TRUE, rows |-> df]>>,
                             result |-> [jobs |-> [i \in 1..Len(kept) |-> Summary(kept[i])]]]

\* how job.wait(timeout) can end
WaitOutcomes == {"ok", "TimeoutError", "RuntimeError"}

\* mutant of AfterWait: the status reported is the one from before the wait
AfterWaitStale(job_id, trace, timeout, waited, s0, final) ==
    LET w == [ev |-> "wait", timeout |-> timeout, ok |-> waited = "ok"] IN
    IF waited # "ok"
    THEN [outcome |-> "raised", exc |-> waited, result |-> NoResult,
          trace |-> trace \o <<w>>]
    ELSE [outcome |-> "returned", exc |-> None,
          result |-> [job_id |-> job_id, status |-> s0],
          trace |-> trace \o <<[ev |-> "status", value |-> s0], w>>]

\* job.wait(timeout=timeout), then result = {"job_id": job.id,
\* "status": str(job.status)}; s0 is the status the job had before the wait
AfterWait(job_id, trace, timeout, waited, s0, final) ==
    LET w == [ev |-> "wait", timeout |-> timeout, ok |-> waited = "ok"] IN
    IF waited # "ok"
    THEN [outcome |-> "raised", exc |-> waited, result |-> NoResult,
          trace |-> trace \o <<w>>]
    ELSE [outcome |-> "returned", exc |-> None,
          result |-> [job_id |-> job_id, status |-> final],
          trace |-> trace \o <<w, [ev |-> "status", value |-> final]>>]

\* wait_for_job(job_id, connection_name, timeout)
WaitForJob(job_id, connection_name, timeout) ==
    LET args == [job_id |-> job_id, connection_name |-> connection_name,
                 timeout |-> timeout]
        fail(exc, trace) == [op |-> "wait_for_job", args |-> args,
                             outcome |-> "raised", exc |-> exc,
                             trace |-> trace, result |-> NoResult,
                             before |-> None, waited |-> "none"]
    IN
    /\ UNCHANGED <<env, store, fs, njobs, hostVars>>
    /\ \E connOk \in BOOLEAN :
       \E r \in {SessionCall(cache, created, connection_name, env, store,
                             connOk)} :
       LET gs == [ev |-> "get_session", arg |-> connection_name,
                  ok |-> r.outcome = "returned"]
           gj == [ev |-> "get_job", job_id |-> job_id, ok |-> job_id <= njobs]
       IN
       /\ r.created <= MaxHandles
       /\ SessionEffect(r, connection_name)
       /\ IF r.outcome = "raised" THEN last' = fail(r.exc, <<gs>>)
          ELSE IF job_id > njobs THEN last' = fail("JobNotFound", <<gs, gj>>)
          ELSE \E s0 \in Statuses, waited \in WaitOutcomes :
               \E final \in {t \in Terminal : Advances(s0, t)} :
               \E x \in {AfterWait(job_id, <<gs, gj>>, timeout, waited, s0, final)} :
               last' = [op |-> "wait_for_job", args |-> args,
                        outcome |-> x.outcome, exc |-> x.exc,
                        trace |-> x.trace, result |-> x.result,
                        before |-> s0, waited |-> waited]

FilePaths == {"train.py", "missing.py"}
DirPaths == {"project", "missing_dir"}
JobConns == {None, "ghost"}
Timeouts == {300}
JobIds == 1..MaxJobs

NextJobs ==
    \/ \E f \in FilePaths, c \in JobConns, w \in BOOLEAN, t \in Timeouts :
          SubmitFile(f, "ML_COMPUTE_POOL", c, w, t)
    \/ \E d \in DirPaths, c \in JobConns, w \in BOOLEAN, t \in Timeouts :
          SubmitDirectory(d, "train.py", "ML_COMPUTE_POOL", c, 1, w, t, <<>>)
    \/ \E j \in JobIds, c \in JobConns : GetJobStatus(j, c)

SpecJobs == Init /\ [][NextJobs]_vars

Limits == {0, 1, 2, 10}
WaitTimeouts == {60, 3600}

\* submitting, listing and waiting
NextWatch ==
    \/ SubmitFile("train.py", "ML_COMPUTE_POOL", "myconnection", FALSE, 300)
    \/ \E c \in JobConns, n \in Limits : ListJobs(c, n)
    \/ \E j \in JobIds, c \in JobConns, t \in WaitTimeouts : WaitForJob(j, c, t)

SpecWatch == Init /\ [][NextWatch]_vars

\* the entries a source directory may hold; a tree is a subset in which every
\* entry lies in a directory of the tree and no path is both file and directory
TreeUniverse ==
    { [path |-> <<N_t_py>>, kind |-> "file"],
      [path |-> <<N_a_pyc>>, kind |-> "file"],
      [path |-> <<N_git>>, kind |-> "dir"],
      [path |-> <<N_git, N_cfg>>, kind |-> "file"],
      [path |-> <<N_git>>, kind |-> "file"],
      [path |-> <<N_pkg>>, kind |-> "dir"],
      [path |-> <<N_pkg, N_m_py>>, kind |-> "file"],
      [path |-> <<N_pkg, N_pycache>>, kind |-> "dir"],
      [path |-> <<N_pkg, N_pycache, N_m_pyc>>, kind |-> "file"],
      [path |-> <<N_pytest_cache>>, kind |-> "dir"],
      [path |-> <<N_c_pyc>>, kind |-> "dir"],
      [path |-> <<N_c_pyc, N_n_txt>>, kind |-> "file"] }

IsTree(t) ==
    /\ \A e \in t : Len(e.path) > 1
          => [path |-> SubSeq(e.path, 1, Len(e.path) - 1), kind |-> "dir"] \in t
    /\ \A e, f \in t : e.path = f.path => e = f

Trees == {t \in SUBSET TreeUniverse : IsTree(t)}
ExcludeArgs == {<<>>, << <<"*", ".", "p", "y">> >>}

InitCopy ==
    /\ InitProcess
    /\ env = Unset
    /\ store = {"myconnection", "dev"}
    /\ tree \in Trees
    /\ cfgfiles = NoFiles

\* directory submissions over every source tree
NextCopy ==
    \E x \in ExcludeArgs :
        SubmitDirectory("project", "train.py", "ML_COMPUTE_POOL", "myconnection", 1, FALSE, 300, x)

SpecCopy == InitCopy /\ [][NextCopy]_vars

\* Config values: defaults and other values in every field, the empty
\* connection name and the empty port list among them
ConfigValues ==
    [connection_name : {"default", ""},
     project : [name : {"ml_dev", "proj"}, database : {"ML_DEV"}],
     compute : [pool_name : {"ml_dev_pool"}, instance_family : {"CPU_X64_M"},
                min_nodes : {1, 2}, max_nodes : {1}],
     storage : [stage_name : {"DEV_STAGE", "S"}, encryption : {"SNOWFLAKE_SSE"}],
     network : [eai_name : {"ALLOW_ALL_INTEGRATION"},
                allow_ports : {<<443, 80>>, <<>>}]]

\* a mapping with the keys and values of a record
Pairs(rec) == {<<k, rec[k]>> : k \in DOMAIN rec}

\* the dictionary that gives every field of a Config value
FullData(c) ==
    {<<"connection_name", c.connection_name>>}
        \cup {<<sec, Pairs(c[sec])>> : sec \in Sections}

\* dictionaries handed to from_dict: all fields; one top-level key missing;
\* one field of a section missing; a key that is no field added
DataValues(c) ==
    LET full == FullData(c) IN
    {full}
        \cup {full \ {p} : p \in full}
        \cup {(full \ {<<"compute", Pairs(c.compute)>>})
                  \cup {<<"compute", Pairs(c.compute) \ {<<"min_nodes", c.compute.min_nodes>>}>>}}
        \cup {full \cup {<<"comment", "x">>}}

NextRoundTrip ==
    \/ \E c \in ConfigValues : Rebuild(c)
    \/ \E c \in ConfigValues : \E data \in DataValues(c) : Redump(data)

InitRoundTrip ==
    /\ InitProcess
    /\ env = Unset
    /\ store = {"myconnection", "dev"}
    /\ tree = PlainTree
    /\ cfgfiles = NoFiles

SpecRoundTrip == InitRoundTrip /\ [][NextRoundTrip]_vars

\* values a configuration file may give, all different from the defaults
GivenValues(sec) ==
    CASE sec = "project" -> [name |-> "proj", database |-> "PROJ_DB"]
      [] sec = "compute" -> [pool_name |-> "gpu_pool", instance_family |-> "GPU_NV_S", min_nodes |-> 2, max_nodes |-> 4]
      [] sec = "storage" -> [stage_name |-> "MY_STAGE", encryption |-> "SNOWFLAKE_FULL"]
      [] sec = "network" -> [eai_name |-> "MY_EAI", allow_ports |-> <<8080>>]

FirstField(sec) ==
    CASE sec = "project" -> "name"
      [] sec = "compute" -> "pool_name"
      [] sec = "storage" -> "stage_name"
      [] sec = "network" -> "eai_name"

\* a section is left out, given empty, given with one field or given in full
SectionShapes == {"absent", "empty", "partial", "full"}

SectionDict(sec, shape) ==
    CASE shape = "full" -> {<<f, GivenValues(sec)[f]>> : f \in DOMAIN GivenValues(sec)}
      [] shape = "partial" -> {<<FirstField(sec), GivenValues(sec)[FirstField(sec)]>>}
      [] OTHER -> {}

FileData(shapes, named) ==
    {<<sec, SectionDict(sec, shapes[sec])>> : sec \in {x \in Sections : shapes[x] # "absent"}}
    \cup (IF named THEN {<<"connection_name", "prod">>} ELSE {})

\* a section with a field the dataclass does not have
UnknownFieldData == {<<"project", {<<"name", "proj">>, <<"owner", "me">>}>>}

WellFormedData ==
    {FileData(shapes, named) : shapes \in [Sections -> SectionShapes], named \in BOOLEAN}

File(data) == [exists |-> TRUE, wellformed |-> TRUE, data |-> data]

DefaultFileData == FileData([sec \in Sections |-> IF sec = "storage" THEN "full" ELSE "absent"], FALSE)
MyFileData == FileData([sec \in Sections |-> IF sec = "compute" THEN "partial" ELSE "absent"], TRUE)

\* the files on disk: any user file or none, a default file or none, a file
\* my.yaml, a file bad.yaml that is not YAML, and no file nope.yaml
InitConfig ==
    /\ InitProcess
    /\ env = Unset
    /\ store = {"myconnection", "dev"}
    /\ tree = PlainTree
    /\ \E user \in {NoFile} \cup {File(d) : d \in WellFormedData \cup {UnknownFieldData}},
          dflt \in {NoFile, File(DefaultFileData)} :
          cfgfiles = [p \in CfgPaths |->
                        CASE p = UserConfig -> user
                          [] p = DefaultConfig -> dflt
                          [] p = "my.yaml" -> File(MyFileData)
                          [] p = "bad.yaml" -> [exists |-> TRUE, wellformed |-> FALSE, data |-> {}]
                          [] OTHER -> NoFile]

ConfigPathArgs == {None, "", "my.yaml", "bad.yaml", "nope.yaml"}

NextConfig == \E p \in ConfigPathArgs : Load(p)

SpecConfig == InitConfig /\ [][NextConfig]_vars

ServiceNames == {"dev", "gpu-dev"}
CliConns == {None, "", "myconnection"}

\* the command line wrappers
Editors == {"cursor", "code"}

NextCli ==
    \/ \E n \in ServiceNames, c \in CliConns : Disconnect(n, c)
    \/ \E n \in ServiceNames, c \in CliConns, e \in Editors :
          ConnectStart(n, "ML_ACCELERATOR_POOL", "@ML_ACCELERATOR.PUBLIC.DEV_STAGE", "ALLOW_ALL_INTEGRATION", c, e)
    \/ \E how \in ProcEndings : ProcEnds(how)

SpecCli == Init /\ [][NextCli]_vars

\* the whole package
Next ==
    \/ Idle /\ (NextSession \/ NextRender \/ NextInfra \/ NextJobs \/ NextWatch \/ NextCopy \/ NextConfig \/ NextResolve \/ NextThreads \/ NextCreds \/ NextDryRun \/ NextRoundTrip)
    \/ NextCli

Spec == Init /\ [][Next]_vars

----------------------------------------------------------------------------
\* Properties of the session provider

\* C4 (as stated): a get_session call that returns, made with an argument that
\* already got a handle since the last clear_session_cache, returns that same
\* handle, whatever get_session calls happened in between; and a call that
\* returns right after clear_session_cache returns a newly created handle.
C4_AsStated ==
    [][ /\ \A a \in Args :
              (/\ last'.op = "get_session" /\ last'.arg = a
               /\ last'.outcome = "returned" /\ given[a] # NoHandle)
              => last'.handle = given[a]
        /\ (/\ last.op = "clear_session_cache" /\ last'.op = "get_session"
            /\ last'.outcome = "returned")
           => last'.handle.id = created + 1 ]_vars

\* C4 (amended): the same handle is returned when neither a cache clear nor a
\* successful get_session with a different argument happened since the earlier
\* call; a call that returns right after a clear returns a new handle.
C4_SameHandleUntilEvicted ==
    [][ /\ \A a \in Args :
              (/\ last'.op = "get_session" /\ last'.arg = a
               /\ last'.outcome = "returned" /\ given[a] # NoHandle
               /\ lastKey = a)
              => last'.handle = given[a]
        /\ (/\ last.op = "clear_session_cache" /\ last'.op = "get_session"
            /\ last'.outcome = "returned")
           => (last'.handle.id = created + 1 /\ created' = created + 1) ]_vars

\* a repeated call was answered with the handle created by an earlier call
C4_Witness ==
    /\ last.op = "get_session" /\ last.outcome = "returned"
    /\ last.arg = "dev"
    /\ ~last.fresh
    /\ last.handle = given["dev"]
    /\ last.handle.id = created

\* C5 (as stated): while a handle is cached no other handle takes its place
\* unless the cache is cleared first.
C5_AsStated ==
    [][ (cache.full /\ cache'.full) => cache'.handle = cache.handle ]_vars

\* C5 (amended): a successful get_session with an argument other than the
\* cached one creates a new handle, which replaces the cached one at once;
\* a failing get_session leaves the cached handle in place.
C5_DistinctNameOverwrites ==
    [][ /\ (/\ last'.op = "get_session" /\ last'.outcome = "returned"
            /\ cache.full /\ cache.key # last'.arg)
           => /\ cache' = [full |-> TRUE, key |-> last'.arg,
                           handle |-> last'.handle]
              /\ last'.handle.id = created + 1
              /\ last'.handle # cache.handle
        /\ (last'.op = "get_session" /\ last'.outcome = "raised")
           => cache' = cache ]_vars

\* a second name got a new handle while the first name's handle was cached
C5_Witness ==
    /\ last.op = "get_session" /\ last.outcome = "returned"
    /\ cache.full /\ cache.key = last.arg /\ cache.handle = last.handle
    /\ \E b \in Args \ {last.arg} :
          given[b] # NoHandle /\ given[b].id < last.handle.id

----------------------------------------------------------------------------
\* Properties of setup and teardown

IsSql(tok) == tok.t = "sql"
IsSqlEvent(e) == e.ev = "sql"

\* the SQL statements in a text, in order
SqlOf(toks) == SelectSeq(toks, IsSql)

RECURSIVE Flatten(_)
Flatten(seqs) == IF seqs = <<>> THEN <<>> ELSE Head(seqs) \o Flatten(Tail(seqs))

\* the SQL statements the call passed to session.sql, in order
ExecutedSql(trace) ==
    LET evs == SelectSeq(trace, IsSqlEvent) IN
    Flatten([i \in 1..Len(evs) |-> SqlOf(evs[i].stmt)])

KindsOf(stmts) == [i \in 1..Len(stmts) |-> stmts[i].kind]

CreationSequence ==
    << "USE ROLE", "CREATE DATABASE IF NOT EXISTS", "USE DATABASE",
       "CREATE OR REPLACE NETWORK RULE",
       "CREATE OR REPLACE EXTERNAL ACCESS INTEGRATION",
       "GRANT USAGE ON INTEGRATION", "CREATE STAGE IF NOT EXISTS",
       "CREATE COMPUTE POOL IF NOT EXISTS" >>

IsCreation(tok) == \E i \in 1..Len(CreationSequence) : tok.kind = CreationSequence[i]

\* C1 (as stated): a setup with execute=True in which no statement fails
\* passes the eight creation statements of the rendered text to the session,
\* in rendered order, each exactly once.
C1_AsStated ==
    (/\ last.op = "setup" /\ last.args.execute /\ last.outcome = "returned"
     /\ \A i \in 1..Len(last.trace) : last.trace[i].ok)
    => /\ KindsOf(SelectSeq(SqlOf(last.result.sql), IsCreation)) = CreationSequence
       /\ SelectSeq(ExecutedSql(last.trace), IsCreation)
            = SelectSeq(SqlOf(last.result.sql), IsCreation)

\* C2 (as stated): a teardown with execute=True that got its session passes
\* every statement of the emitted text to the session, in emitted order; DROP
\* STAGE is among them when keep_stage=False and DROP DATABASE when
\* keep_database=False.
C2_AsStated ==
    (last.op = "teardown" /\ last.args.execute /\ last.outcome = "returned")
    => /\ ExecutedSql(last.trace) = SqlOf(last.result.sql)
       /\ ~last.args.keep_stage
          => \E i \in 1..Len(ExecutedSql(last.trace)) :
                ExecutedSql(last.trace)[i].kind = "DROP STAGE IF EXISTS"
       /\ ~last.args.keep_database
          => \E i \in 1..Len(ExecutedSql(last.trace)) :
                ExecutedSql(last.trace)[i].kind = "DROP DATABASE IF EXISTS"

\* C3: once setup or teardown with execute=True has its session, whatever
\* subset of the statements fails, the call returns with status 'complete'
\* and the session saw every statement of the split text exactly once, in
\* order: nothing after a failure is skipped, nothing is retried or undone.
C3_BestEffort ==
    (/\ last.op \in {"setup", "teardown"} /\ last.args.execute
     /\ last.trace[1].ok)
    => /\ last.outcome = "returned"
       /\ last.exc = None
       /\ last.result.status = "complete"
       /\ LET evs == SubSeq(last.trace, 2, Len(last.trace)) IN
          /\ \A i \in 1..Len(evs) : evs[i].ev = "sql"
          /\ [i \in 1..Len(evs) |-> evs[i].stmt] = Statements(last.result.sql)

\* a teardown whose first statement failed and whose later ones still ran
C3_Witness ==
    /\ last.op = "teardown" /\ last.args.execute
    /\ last.outcome = "returned"
    /\ Len(last.trace) = 4
    /\ ~last.trace[2].ok /\ last.trace[3].ok /\ ~last.trace[4].ok

IsDropStage(tok) == IsSql(tok) /\ tok.kind \in {"DROP STAGE IF EXISTS", "DROP STAGE"}
IsDropDatabase(tok) ==
    IsSql(tok) /\ tok.kind \in {"DROP DATABASE IF EXISTS", "DROP DATABASE"}

\* C7: the text teardown emits holds no DROP STAGE when keep_stage and exactly
\* one DROP STAGE IF EXISTS, naming the configured stage, otherwise; the same
\* for DROP DATABASE and keep_database; the result's stage_preserved and
\* database_preserved flags are keep_stage and keep_database.
C7_DropsOnlyOnRequest ==
    (last.op = "teardown" /\ last.outcome = "returned")
    => LET a == last.args
           stages == SelectSeq(last.result.sql, IsDropStage)
           dbs == SelectSeq(last.result.sql, IsDropDatabase)
       IN  /\ stages = IF a.keep_stage THEN <<>>
                       ELSE <<St("DROP STAGE IF EXISTS",
                                 <<a.database \o ".PUBLIC." \o a.stage_name>>)>>
           /\ dbs = IF a.keep_database THEN <<>>
                    ELSE <<St("DROP DATABASE IF EXISTS", <<a.database>>)>>
           /\ last.result.stage_preserved = a.keep_stage
           /\ last.result.database_preserved = a.keep_database

\* teardown asked to drop the stage but keep the database
C7_Witness ==
    /\ last.op = "teardown" /\ last.outcome = "returned"
    /\ ~last.args.keep_stage /\ last.args.keep_database
    /\ last.args.stage_name = "ML_JOBS_STAGE"
    /\ Len(SelectSeq(last.result.sql, IsDropStage)) = 1

IsCreatePool(tok) == IsSql(tok) /\ tok.kind = "CREATE COMPUTE POOL IF NOT EXISTS"

\* C8: setup(execute=False) returns status 'sql_generated'; its text holds
\* exactly one CREATE COMPUTE POOL IF NOT EXISTS statement, for the pool name
\* (project_name + "_pool" when none is given) with the given min_nodes,
\* max_nodes and instance family; database, compute_pool, stage and eai_name
\* of the result are the arguments.
C8_SqlGenerated ==
    (last.op = "setup" /\ ~last.args.execute)
    => LET a == last.args
           pool == IF a.pool_name = None THEN a.project_name \o "_pool"
                   ELSE a.pool_name
       IN  /\ last.outcome = "returned"
           /\ last.result.status = "sql_generated"
           /\ SelectSeq(last.result.sql, IsCreatePool)
                = <<St("CREATE COMPUTE POOL IF NOT EXISTS",
                       <<pool, IntStr(a.min_nodes), IntStr(a.max_nodes),
                         a.instance_family>>)>>
           /\ last.result.database = a.database
           /\ last.result.compute_pool = pool
           /\ last.result.stage = a.stage_name
           /\ last.result.eai_name = a.eai_name

\* a rendering with the default pool name and distinct node bounds
C8_Witness ==
    /\ last.op = "setup" /\ ~last.args.execute
    /\ last.args.pool_name = None /\ last.args.project_name = "proj"
    /\ last.args.min_nodes = 1 /\ last.args.max_nodes = 2
    /\ last.args.instance_family = "GPU_NV_S"
    /\ last.result.compute_pool = "proj_pool"

----------------------------------------------------------------------------
\* Properties of job submission and status

SubmitOps == {"submit_file", "submit_directory"}

\* the local path a submit call was given
LocalPath(l) == IF l.op = "submit_file" THEN l.args.file_path ELSE l.args.dir_path

\* C6: submit_file / submit_directory on a path that does not exist raise
\* FileNotFoundError having made no external call: no session is obtained
\* (cache and handle counter untouched), nothing reaches the submission API,
\* no job is added.
C6_NotFoundBeforeAnyCall ==
    [][ (last'.op \in SubmitOps /\ LocalPath(last') \notin fs)
        => /\ last'.outcome = "raised"
           /\ last'.exc = "FileNotFoundError"
           /\ last'.trace = <<>>
           /\ cache' = cache /\ created' = created
           /\ njobs' = njobs ]_vars

\* a submission of a missing directory failed although a session was available
C6_Witness ==
    /\ last.op = "submit_directory"
    /\ last.args.dir_path = "missing_dir"
    /\ last.exc = "FileNotFoundError"
    /\ cache.full /\ njobs > 0

EventPositions(trace, name) == {i \in 1..Len(trace) : trace[i].ev = name}

\* C9: a submission that returns without wait made no wait and no result call
\* and carries the job id and the one status read after submitting; with wait
\* the wait primitive was called with the given timeout and the status
\* returned is the one read after that wait, the last status read.
C9_WaitSupersedes ==
    (last.op \in SubmitOps /\ last.outcome = "returned")
    => LET tr == last.trace
           st == EventPositions(tr, "status")
           sub == EventPositions(tr, "submit")
           wt == EventPositions(tr, "wait")
       IN  /\ last.result.job_id = njobs
           /\ IF ~last.args.wait
              THEN /\ wt = {} /\ EventPositions(tr, "result") = {}
                   /\ \E i \in st : /\ st = {i}
                                    /\ \A j \in sub : j < i
                                    /\ last.result.status = tr[i].value
              ELSE \E w \in wt :
                   /\ wt = {w}
                   /\ tr[w].timeout = last.args.timeout /\ tr[w].ok
                   /\ \A j \in sub : j < w
                   /\ \E i \in st : /\ i > w
                                    /\ \A j \in st : j <= i
                                    /\ last.result.status = tr[i].value

\* a waited submission whose final status differs from the one read first
C9_Witness ==
    /\ last.op = "submit_file" /\ last.outcome = "returned"
    /\ last.args.wait
    /\ last.result.status = "DONE"
    /\ \E i \in EventPositions(last.trace, "status") :
          last.trace[i].value = "PENDING"

JobOps == SubmitOps \cup {"get_job_status"}

\* C10: when the fetch of the result raises, the call still returns its
\* record, with job_id and status and without a result entry; get_job_status
\* calls job.result() only after reading the status DONE.
C10_FetchBestEffort ==
    (last.op \in JobOps)
    => LET tr == last.trace
           rs == EventPositions(tr, "result")
       IN  /\ (\E i \in rs : ~tr[i].ok)
              => /\ last.outcome = "returned"
                 /\ {"job_id", "status"} \subseteq DOMAIN last.result
                 /\ "result" \notin DOMAIN last.result
                 /\ last.result.status \in Statuses
           /\ last.op = "get_job_status"
              => \A i \in rs : i > 1 /\ tr[i-1].ev = "status"
                                     /\ tr[i-1].value = "DONE"

\* get_job_status returned a DONE job whose result could not be fetched
C10_Witness ==
    /\ last.op = "get_job_status" /\ last.outcome = "returned"
    /\ \E i \in EventPositions(last.trace, "result") : ~last.trace[i].ok
    /\ last.result.status = "RUNNING"


\* a directory submission with the default patterns that reached the upload
DefaultUpload ==
    /\ last.op = "submit_directory"
    /\ last.args.exclude_patterns = <<>>
    /\ EventPositions(last.trace, "submit") # {}

\* what the upload was given: the content of the scratch copy
Staged ==
    LET i == CHOOSE i \in EventPositions(last.trace, "copytree") : TRUE
    IN  last.trace[i].copied

EndsWithPyc(n) ==
    Len(n) >= 4 /\ SubSeq(n, Len(n) - 3, Len(n)) = <<".", "p", "y", "c">>

CacheDirName(n) == n \in {N_pycache, N_git, N_pytest_cache}

\* nothing of an excluded kind is staged, at any depth
NothingExcludedStaged ==
    \A e \in Staged :
        /\ ~(e.kind = "dir" /\ CacheDirName(LastName(e)))
        /\ ~(e.kind = "file" /\ EndsWithPyc(LastName(e)))

\* the file lies inside a __pycache__, .git or .pytest_cache directory
InsideCacheDir(e) ==
    \E k \in 1..(Len(e.path) - 1) : CacheDirName(e.path[k])

\* C11 as stated: no __pycache__, .git or .pytest_cache directory and no *.pyc
\* file is staged, and every other file of the source tree (one that is not a
\* *.pyc file and does not lie inside such a directory) is staged.
C11_AsStated ==
    DefaultUpload
    => /\ NothingExcludedStaged
       /\ \A e \in tree :
             (e.kind = "file" /\ ~EndsWithPyc(LastName(e)) /\ ~InsideCacheDir(e))
             => e \in Staged

\* a name the default patterns match, whatever kind of entry carries it
DefaultExcludedName(n) == CacheDirName(n) \/ EndsWithPyc(n)

\* C11 (amended): with the default patterns the staged copy holds exactly the
\* entries of the source tree, files and directories alike, none of whose path
\* components is named __pycache__, .git, .pytest_cache or *.pyc; so a file
\* named .git and the files below a directory named like x.pyc are left out too.
C11_StagedIsUnmatchedPaths ==
    DefaultUpload
    => Staged = {e \in tree :
                    \A k \in 1..Len(e.path) : ~DefaultExcludedName(e.path[k])}

\* C11 witness: an upload of a tree that has a nested __pycache__, a .git
\* directory and a compiled file, with a script staged from a subdirectory
C11_Witness ==
    /\ DefaultUpload
    /\ [path |-> <<N_pkg, N_pycache, N_m_pyc>>, kind |-> "file"] \in tree
    /\ [path |-> <<N_git, N_cfg>>, kind |-> "file"] \in tree
    /\ [path |-> <<N_a_pyc>>, kind |-> "file"] \in tree
    /\ [path |-> <<N_pkg, N_m_py>>, kind |-> "file"] \in Staged
    /\ Cardinality(Staged) = 3


\* the CLI run a disconnect call made
StopRun == last.trace[1].run

\* C12: disconnect returns True when the CLI exits zero, and when it exits
\* non-zero with an error text that contains "not found" or "does not exist"
\* in any letter case; every other non-zero exit and an absent CLI binary
\* return False; in all these cases the call returns and does not raise.
C12_StopClassification ==
    (last.op = "disconnect" /\ StopRun.kind \in {"exit", "FileNotFoundError"})
    => /\ last.outcome = "returned"
       /\ last.result.ok =
            (/\ StopRun.kind = "exit"
             /\ \/ StopRun.returncode = 0
                \/ \E t \in {T_not_found, T_does_not_exist} :
                   \E i \in 1..Len(StopRun.stderr) :
                      /\ i + Len(t) - 1 <= Len(StopRun.stderr)
                      /\ \A k \in 1..Len(t) :
                            LowerChar(StopRun.stderr[i + k - 1]) = t[k])

\* C12 witness: a non-zero exit whose error text says "Not Found" in mixed
\* case was reported as success
C12_Witness ==
    /\ last.op = "disconnect"
    /\ StopRun.kind = "exit" /\ StopRun.returncode = 1
    /\ StopRun.stderr = <<"s", "v", "c", " ", "N", "o", "t", " ", "F", "o", "u", "n", "d">>
    /\ last.result.ok


-----------------------------------------------------------------------------
\* Properties of the configuration loader

\* the paths a load call opened, and the paths it looked at in any way
OpenedPaths == {last.trace[i].path : i \in EventPositions(last.trace, "open")}
TouchedPaths == {last.trace[i].path : i \in 1..Len(last.trace)}

ExplicitPath == last.args.config_path \notin {None, ""}

\* C13 as stated: load with an explicitly given path that does not exist fails
\* with an error and yields no Configuration.
C13_AsStated ==
    (last.op = "load" /\ ExplicitPath
        /\ ~cfgfiles[last.args.config_path].exists)
    => last.outcome = "raised"

\* the dict the last load parsed
LoadedData == cfgfiles[CHOOSE q \in OpenedPaths : TRUE].data

\* the value a returned record must carry for field f of section sec
Expected(data, sec, f) ==
    IF \E p \in data : p[1] = sec /\ \E q \in p[2] : q[1] = f
    THEN (CHOOSE q \in (CHOOSE p \in data : p[1] = sec)[2] : q[1] = f)[2]
    ELSE SectionDefaults(sec)[f]

\* C14: a load that parsed a file holding any subset of the sections, each
\* with documented fields only, returns a record in which an omitted section
\* equals its defaults (network: ports [443, 80], eai ALLOW_ALL_INTEGRATION),
\* a present section carries the given values, a field not given inside a
\* present section has its default, and connection_name is the given one or
\* "default".
C14_SectionDefaults ==
    (last.op = "load" /\ OpenedPaths # {}
        /\ cfgfiles[CHOOSE q \in OpenedPaths : TRUE].wellformed
        /\ LoadedData \in WellFormedData)
    => /\ last.outcome = "returned"
       /\ \A sec \in Sections : \A f \in DOMAIN SectionDefaults(sec) :
             last.result.config[sec][f] = Expected(LoadedData, sec, f)
       /\ (~\E p \in LoadedData : p[1] = "network")
             => last.result.config.network =
                  [eai_name |-> "ALLOW_ALL_INTEGRATION", allow_ports |-> <<443, 80>>]
       /\ last.result.config.connection_name =
             (IF \E p \in LoadedData : p[1] = "connection_name"
              THEN "prod" ELSE "default")

\* C14 witness: the user file gives project in full, compute with its pool
\* name only and no network section
C14_Witness ==
    /\ last.op = "load" /\ last.outcome = "returned"
    /\ OpenedPaths = {UserConfig}
    /\ last.result.config.project = [name |-> "proj", database |-> "PROJ_DB"]
    /\ last.result.config.compute = [pool_name |-> "gpu_pool", instance_family |-> "CPU_X64_M", min_nodes |-> 1, max_nodes |-> 1]
    /\ last.result.config.network = NetworkDefaults
    /\ ~\E p \in LoadedData : p[1] = "network"

\* C15: load without an explicit path opens the user file when it exists and
\* then never looks at the default file; else it opens the default file when
\* that exists; else it returns the built-in defaults without error.
C15_SearchOrder ==
    (last.op = "load" /\ ~ExplicitPath)
    => IF cfgfiles[UserConfig].exists
       THEN OpenedPaths = {UserConfig} /\ DefaultConfig \notin TouchedPaths
       ELSE IF cfgfiles[DefaultConfig].exists
       THEN OpenedPaths = {DefaultConfig}
       ELSE /\ OpenedPaths = {}
            /\ last.outcome = "returned"
            /\ last.result.config = BuiltinConfig

\* C15 witness: both files exist, the default file sets the stage and the
\* user file does not; the record loaded has the built-in stage
C15_Witness ==
    /\ last.op = "load" /\ ~ExplicitPath /\ last.outcome = "returned"
    /\ cfgfiles[UserConfig].exists /\ cfgfiles[DefaultConfig].exists
    /\ cfgfiles[DefaultConfig].data = DefaultFileData
    /\ last.result.config.storage = StorageDefaults
    /\ last.result.config.connection_name = "prod"


-----------------------------------------------------------------------------
\* Properties of name resolution

\* a get_session or get_connection call whose body ran (no cache hit)
Resolving == last.op \in {"get_session", "get_connection"} /\ last.ran

C17_NotFoundBeforeConnect ==
    [][ (last'.op = "get_session" /\ last'.ran /\ last'.resolved \notin store)
        => /\ last'.outcome = "raised" /\ last'.exc = "ValueError"
           /\ ~last'.attempted
           /\ last'.handle = NoHandle
           /\ cache' = cache /\ created' = created ]_vars

\* C17 witness: with no store file, get_session("myconnection") raised
\* ValueError
C17_Witness ==
    /\ last.op = "get_session" /\ last.arg = "myconnection"
    /\ store = {}
    /\ last.outcome = "raised" /\ last.exc = "ValueError"
    /\ ~last.attempted


-----------------------------------------------------------------------------
\* Properties of connect

Connecting == last.op = "connect" /\ last.outcome = "blocked"

\* positions of "-c" in the command line of a connect call
DashC(cmd) == {i \in 1..Len(cmd) : cmd[i] = "-c"}

\* C18: connect is blocked exactly while the CLI subprocess runs, and what
\* unblocks it is the end of the subprocess: after exit 0 or a keyboard
\* interrupt connect returns normally, after a non-zero exit the process
\* exits with status 1; an absent snow binary exits with status 1 without
\* blocking; "-c <conn>" is on the command line exactly when a connection
\* name is given.
C18_ConnectLifetime ==
    [][ /\ (proc' = "running") <=> (last'.op = "connect" /\ last'.outcome = "blocked")
        /\ (Connecting /\ last' # last)
           => /\ proc = "running" /\ proc' = "none"
              /\ last'.op = "connect" /\ last'.args = last.args
              /\ last'.ended \in {"exit 0", "KeyboardInterrupt"}
                    => last'.outcome = "returned"
              /\ last'.ended \in {"exit 1", "exit 2"}
                    => last'.outcome = "exited" /\ last'.sys_exit = 1
        /\ (last'.op = "connect" /\ last'.ended = "FileNotFoundError")
           => last'.outcome = "exited" /\ last'.sys_exit = 1
        /\ last'.op = "connect"
           => IF last'.args.connection_name \in {None, ""}
              THEN DashC(last'.cmd) = {}
              ELSE /\ DashC(last'.cmd) = {Len(last'.cmd) - 1}
                   /\ last'.cmd[Len(last'.cmd)] = last'.args.connection_name
      ]_vars

\* C18 witness: a connect without connection name that was interrupted and
\* returned normally
C18_Witness ==
    /\ last.op = "connect" /\ last.ended = "KeyboardInterrupt"
    /\ last.outcome = "returned"
    /\ last.args.connection_name = None
    /\ proc = "none"


-----------------------------------------------------------------------------
\* Properties of list_jobs and wait_for_job

\* the full listing the service returned to the last list_jobs call
FullListing ==
    LET i == CHOOSE i \in EventPositions(last.trace, "list_jobs") : TRUE
    IN  last.trace[i].rows

\* the value of a row under a column name in either letter case
Column(row, lower, upper) ==
    (CHOOSE p \in row : p[1] \in {lower, upper})[2]

\* C19: a list_jobs(limit) call that returns gives at most limit summaries,
\* namely the first limit rows of the full listing in the service's order,
\* and all rows when the service knows no more than limit jobs.
C19_FirstLimitRows ==
    (last.op = "list_jobs" /\ last.outcome = "returned")
    => LET res == last.result.jobs
           limit == last.args.limit
       IN  /\ Len(res) <= limit
           /\ Len(res) = (IF Len(FullListing) <= limit
                          THEN Len(FullListing) ELSE limit)
           /\ Len(FullListing) = njobs
           /\ \A i \in 1..Len(res) :
                 /\ res[i].job_id = Column(FullListing[i], "name", "NAME")
                 /\ res[i].status = Column(FullListing[i], "status", "STATUS")
                 /\ res[i].compute_pool =
                       Column(FullListing[i], "compute_pool", "COMPUTE_POOL")

\* C19 witness: two jobs known, limit 1: the one summary is the newest job
C19_Witness ==
    /\ last.op = "list_jobs" /\ last.outcome = "returned"
    /\ njobs = 2 /\ last.args.limit = 1
    /\ Len(last.result.jobs) = 1
    /\ last.result.jobs[1].job_id = "MLJOB_2"

\* C20: a wait_for_job call that returns carries the job id and the status
\* read after the wait primitive returned (the wait was made with the given
\* timeout, the status read follows it and nothing is read before it); when
\* the wait primitive raises, the call raises that same error and returns no
\* record.
C20_PostWaitStatus ==
    (last.op = "wait_for_job" /\ last.waited # "none")
    => LET tr == last.trace
           wt == EventPositions(tr, "wait")
           st == EventPositions(tr, "status")
       IN  /\ Cardinality(wt) = 1
           /\ \A i \in wt : tr[i].timeout = last.args.timeout
           /\ IF last.waited = "ok"
              THEN /\ last.outcome = "returned"
                   /\ last.result.job_id = last.args.job_id
                   /\ Cardinality(st) = 1
                   /\ \A i \in wt, j \in st :
                         i < j /\ last.result.status = tr[j].value
              ELSE /\ last.outcome = "raised"
                   /\ last.exc = last.waited
                   /\ last.result = NoResult
                   /\ st = {}

\* C20 witness: a job that was PENDING before the wait is reported DONE
C20_Witness ==
    /\ last.op = "wait_for_job" /\ last.outcome = "returned"
    /\ last.before = "PENDING"
    /\ last.result.status = "DONE"
    /\ last.args.timeout = 60


-----------------------------------------------------------------------------
\* Properties of the memoiser under overlapping callers

\* C21: however get_session and clear_session_cache calls of several threads
\* interleave, the cache holds at most one handle, the handle cached under an
\* explicit name was created for that name, and so was every handle a
\* get_session call for an explicit name has returned.
C21_SingleSlot ==
    /\ Len(lru) <= 1
    /\ \A i \in 1..Len(lru) :
          lru[i].key # None => lru[i].handle.name = lru[i].key
    /\ \A t \in Threads :
          (thr[t].pc = "returned" /\ thr[t].arg # None)
          => thr[t].ret.name = thr[t].arg /\ thr[t].ret.id \in 1..created

\* C21 witness: two overlapping misses for different names: one thread has
\* returned its handle while the entry of the other is the one cached
C21_Witness ==
    /\ thr[1].pc = "returned" /\ thr[1].arg = "dev"
    /\ thr[2].pc = "returned" /\ thr[2].arg = None
    /\ thr[1].ret.id = 2 /\ thr[2].ret.id = 1
    /\ Len(lru) = 1 /\ lru[1].key = None


-----------------------------------------------------------------------------
\* Properties of the credential lookup

\* C22 as stated: for a table with authenticator SNOWFLAKE_JWT the
\* configuration returned for the connector has a private_key and neither
\* private_key_path nor authenticator; every other table is returned as
\* stored; the store itself is not changed by the call.
C22_AsStated ==
    [][ (last'.op = "_get_connection_config" /\ last'.outcome = "returned")
        => /\ creds' = creds
           /\ LET entry == creds[last'.args.connection_name]
                  cfg == last'.config
              IN  IF \E p \in entry : p = <<"authenticator", "SNOWFLAKE_JWT">>
                  THEN /\ \E p \in cfg : p[1] = "private_key"
                       /\ ~\E p \in cfg : p[1] \in {"private_key_path", "authenticator"}
                  ELSE cfg = entry ]_vars


-----------------------------------------------------------------------------
\* Properties of setup against teardown

\* the defaults of setup's parameters (allow_ports: <<>> stands for None)
SetupDefaults == [database |-> "ML_ACCELERATOR", instance_family |-> "CPU_X64_M", stage_name |-> "DEV_STAGE", pool_name |-> None, eai_name |-> "ALLOW_ALL_INTEGRATION", allow_ports |-> <<>>, min_nodes |-> 1, max_nodes |-> 1, execute |-> TRUE]

\* the defaults of teardown's parameters
TeardownDefaults == [database |-> "ML_DEV", pool_name |-> None, stage_name |-> "DEV_STAGE", eai_name |-> "ALLOW_ALL_INTEGRATION", keep_stage |-> TRUE, keep_database |-> TRUE, execute |-> TRUE]

\* every parameter the record of defaults names has its default
AtDefaults(args, defaults) == \A k \in DOMAIN defaults : args[k] = defaults[k]

\* the operands of the statements of one kind in a text
StmtArgs(sql, kind) == {sql[i].args : i \in {j \in 1..Len(sql) : sql[j].t = "sql" /\ sql[j].kind = kind}}

\* the first operands of the statements of one kind
Named(sql, kind) == {a[1] : a \in StmtArgs(sql, kind)}

\* a teardown that follows a setup of the same project, both with defaults
MirrorCase ==
    /\ last.op = "setup" /\ last.outcome = "returned"
    /\ last'.op = "teardown" /\ last'.outcome = "returned"
    /\ last.args.project_name = last'.args.project_name
    /\ AtDefaults(last.args, SetupDefaults)
    /\ AtDefaults(last'.args, TeardownDefaults)

\* C23 as stated: for the same project name and every other parameter at its
\* default, the compute pool, the access integration and the network rule
\* (with its database) that teardown's statements drop are the ones that
\* setup's statements created.
C23_AsStated ==
    [][ MirrorCase =>
        LET up == last.result.sql
            down == last'.result.sql
        IN  /\ Named(down, "DROP COMPUTE POOL IF EXISTS")
                 = Named(up, "CREATE COMPUTE POOL IF NOT EXISTS")
            /\ Named(down, "DROP INTEGRATION IF EXISTS")
                 = Named(up, "CREATE OR REPLACE EXTERNAL ACCESS INTEGRATION")
            /\ Named(down, "DROP NETWORK RULE IF EXISTS")
                 = {d \o ".PUBLIC." \o r : d \in Named(up, "USE DATABASE"),
                                          r \in Named(up, "CREATE OR REPLACE NETWORK RULE")} ]_vars


-----------------------------------------------------------------------------
\* Properties of failing and of argument-less get_session calls

\* C24: a get_session call that fails, because the connection is not found
\* or because the connector raises, leaves the cached entry and the number of
\* handles created as they were; and the next get_session call after the
\* failure made with the argument the cached handle is stored under returns
\* that very handle, creating nothing.
C24_FailureKeepsCache ==
    [][ /\ (last'.op = "get_session" /\ last'.outcome = "raised")
           => (cache' = cache /\ created' = created)
        /\ (/\ last.op = "get_session" /\ last.outcome = "raised"
            /\ cache.full
            /\ last'.op = "get_session" /\ last'.arg = cache.key)
           => /\ last'.outcome = "returned"
              /\ last'.handle = cache.handle
              /\ ~last'.fresh
              /\ created' = created ]_vars

\* the connector raised for one name while the handle of another was cached
C24_Witness ==
    /\ last.op = "get_session" /\ last.outcome = "raised"
    /\ last.exc = "ConnectError" /\ last.arg = "dev"
    /\ cache.full /\ cache.key = "myconnection"
    /\ cache.handle = given["myconnection"]


\* C25 as stated: the cache is keyed by the resolved connection name.  A
\* get_session() call returns the handle that get_session(n) returned since
\* the last cache clear, n being the name the call resolves to, and the other
\* way round; and the handle a get_session() call returns is one for the
\* connection the environment variable (or the fallback) names at that time.
C25_AsStated ==
    [][ (last'.op = "get_session" /\ last'.outcome = "returned")
        => LET n == ResolveName(None, env) IN
           /\ (last'.arg = None /\ given[n] # NoHandle)
              => last'.handle = given[n]
           /\ (last'.arg = n /\ given[None] # NoHandle /\ given[None].name = n)
              => last'.handle = given[None]
           /\ last'.arg = None => last'.handle.name = n ]_vars


-----------------------------------------------------------------------------
\* Properties of the scratch copy of submit_directory

\* the positions of the events of one kind in a trace
EventsAt(tr, kind) == {i \in 1..Len(tr) : tr[i].ev = kind}

\* C26: in submit_directory the submission API is handed the path of a
\* scratch copy made just before the call, never the source path; the copy
\* is not removed before the call and is removed right after it, whether the
\* call returned or raised; every wait on the job comes after that removal;
\* and the source directory and the local files are left as they were.
C26_ScratchLifetime ==
    [][ last'.op = "submit_directory"
        => /\ tree' = tree /\ fs' = fs
           /\ LET tr == last'.trace IN
              \A i \in EventsAt(tr, "submit") :
                 /\ tr[i].path # last'.args.dir_path
                 /\ i > 1 /\ tr[i - 1].ev = "copytree"
                 /\ tr[i - 1].src = last'.args.dir_path
                 /\ tr[i - 1].dst = tr[i].path
                 /\ i < Len(tr) /\ tr[i + 1].ev = "cleanup"
                 /\ tr[i + 1].path = tr[i].path
                 /\ \A k \in EventsAt(tr, "cleanup") : k = i + 1
                 /\ \A w \in EventsAt(tr, "wait") : w > i + 1 ]_vars

\* a submission returned, the copy was removed and the job was then waited for
C26_Witness ==
    /\ last.op = "submit_directory" /\ last.outcome = "returned"
    /\ last.args.wait
    /\ \E i \in EventsAt(last.trace, "cleanup") :
       \E w \in EventsAt(last.trace, "wait") : i < w


-----------------------------------------------------------------------------
\* Properties of setup and teardown called with execute=False

\* C27: setup(execute=False) and teardown(execute=False) obtain no session
\* and run no statement: the call returns the generated text with no call on
\* the session provider or the service, whether or not the named connection
\* exists, and the session cache, the number of handles created and the jobs
\* of the service are as before.
C27_DryRunTouchesNothing ==
    [][ (last'.op \in {"setup", "teardown"} /\ ~last'.args.execute)
        => /\ last'.outcome = "returned"
           /\ last'.exc = None
           /\ last'.trace = <<>>
           /\ last'.result.status = "sql_generated"
           /\ cache' = cache /\ created' = created
           /\ njobs' = njobs /\ store' = store ]_vars

\* a teardown text was generated for a connection the store does not hold,
\* while the handle of another connection was cached
C27_Witness ==
    /\ last.op = "teardown" /\ ~last.args.execute
    /\ last.args.connection_name = "ghost"
    /\ "ghost" \notin store
    /\ last.outcome = "returned"
    /\ cache.full /\ cache.key = "dev"


-----------------------------------------------------------------------------
\* Properties of the dictionary form of a Config

\* the keys of a mapping
Keys(d) == {p[1] : p \in d}

\* data gives the connection name and every field of every section, and
\* nothing else
GivesAllFields(data) ==
    /\ Keys(data) = Sections \cup {"connection_name"}
    /\ \A sec \in Sections :
          Keys(DictGet(data, sec, {})) = DOMAIN SectionDefaults(sec)

\* C28: Config.from_dict(c.to_dict()) returns a Config equal to c, for every
\* Config c; and for a dictionary that gives the connection name and every
\* field of every section, Config.from_dict(data).to_dict() equals data.
C28_RoundTrip ==
    /\ last.op = "rebuild"
       => (last.outcome = "returned" /\ last.result.config = last.args.config)
    /\ (last.op = "redump" /\ GivesAllFields(last.args.data))
       => (last.outcome = "returned" /\ last.result.data = last.args.data)

\* a Config with an empty port list and a non-default node count came back
C28_Witness ==
    /\ last.op = "rebuild" /\ last.outcome = "returned"
    /\ last.args.config.network.allow_ports = <<>>
    /\ last.args.config.compute.min_nodes = 2
    /\ last.args.config.connection_name = ""
    /\ last.result.config = last.args.config

====
